---- MODULE Spec2Model ----
(***************************************************************************)
(* Model of the betbot opportunity-detection engine:                       *)
(*   src/arbitrage_scanner.py  (matcher, cross-venue and internal checks)  *)
(*   src/value_scanner.py      (mispricing and extreme-probability checks) *)
(*   src/kalshi_client.py, src/polymarket_client.py (record shapes)        *)
(*   src/streamlit_app.py      (the dashboard's sessions, DashboardSpec)   *)
(*                                                                         *)
(* Numbers.  Every Python number is a fixed-point integer with One units   *)
(* per 1.0, so 0.55 is 5500 and the integer 40 is 400000.  All products    *)
(* and quotients of the code are kept exact: a ratio a / b is the pair     *)
(* [num |-> a, den |-> b] and is compared by cross-multiplication.         *)
(* Floating-point rounding is outside the model, except in                 *)
(* ValuePolymarketFloat, which makes the value check's subtractions in     *)
(* binary64.                                                               *)
(*                                                                         *)
(* Dicts.  A Python dict is a function on a set of string keys;            *)
(* Get(d, k, default) is d.get(k, default).                                *)
(***************************************************************************)
EXTENDS Integers, Sequences, FiniteSets, TLC

VARIABLES min_profit_threshold, min_edge, time_window_hours, call, pc, ret, prev, asked,
          session, value_time_window_hours

\* the dashboard's sessions and the time window of its value scanner
dashboard == <<session, value_time_window_hours>>

vars == <<min_profit_threshold, min_edge, time_window_hours, call, pc, ret, prev, asked,
          session, value_time_window_hours>>

-----------------------------------------------------------------------------
(* Fixed point *)

One == 10000

Num(n) == n * One

Hundredths(n) == n * (One \div 100)

kalshi_fee_rate == Hundredths(7)

\* polymarket_gas with the value of polymarket_fee_rate (line 87)
GasAtFeeRate == Hundredths(4)

polymarket_gas == Hundredths(2)

DefaultMinProfitThreshold == Hundredths(2)

DefaultMinEdge == Hundredths(5)

DefaultExtremeThreshold == Hundredths(90)

\* a * b for two fixed-point numbers (exact on every value the model uses)
Mul(a, b) == (a * b) \div One

\* DivBy100 with the division of line 184 left out
NotDivided(x) == x

\* x / 100 for a fixed-point number (exact on whole cents)
DivBy100(x) == x \div 100

\* the ratio a / b, b # 0, kept exact
Rat(a, b) == [num |-> a, den |-> b]

\* the percentage (a / b) * 100, b # 0, kept exact as the ratio it scales
Pct(a, b) == [num |-> a, den |-> b]

\* PctGE with the comparison of line 196 written strictly
PctGT(p, t) == p.num * One > t * p.den

\* (a / b) * 100 >= t * 100 for a percentage with b > 0 and a fixed-point t
\* (the factor 100 is on both sides)
PctGE(p, t) == p.num * One >= t * p.den

\* key order of two ratios with positive denominators
RatLess(r, s) == r.num * s.den < s.num * r.den

-----------------------------------------------------------------------------
(* Python dict.get and truthiness *)

EmptyDict == [k \in {} |-> 0]

Get(d, k, default) == IF k \in DOMAIN d THEN d[k] ELSE default

Truthy(x) == x # 0

-----------------------------------------------------------------------------
(* Return values.  An evaluator returns the opportunities it produced, or  *)
(* the exception that ended it.                                            *)

Return(opps) == [exc |-> "none", opps |-> opps]

Raise(e) == [exc |-> e, opps |-> <<>>]

-----------------------------------------------------------------------------
(* arbitragescanner._calculate_arbitrage *)

CrossOpportunity(kalshi_market, polymarket_market, strategy, kalshi_side, kalshi_price, polymarket_side, polymarket_price, total_cost, gross_profit, kalshi_profit_fee, gas, net_profit) ==
    [type |-> "cross_platform_arbitrage",
     kalshi_market |-> Get(kalshi_market, "ticker", ""),
     polymarket_market |-> Get(polymarket_market, "condition_id", ""),
     kalshi_title |-> Get(kalshi_market, "title", <<>>),
     polymarket_question |-> Get(polymarket_market, "question", <<>>),
     strategy |-> strategy,
     trade_details |-> [kalshi_side |-> kalshi_side,
                        kalshi_price |-> kalshi_price,
                        polymarket_side |-> polymarket_side,
                        polymarket_price |-> polymarket_price,
                        position_size |-> One],
     total_cost |-> total_cost,
     guaranteed_return |-> One,
     gross_profit |-> gross_profit,
     fees |-> [kalshi_fee |-> kalshi_profit_fee,
               polymarket_gas |-> gas,
               total_fees |-> kalshi_profit_fee + gas],
     net_profit |-> net_profit,
     profit_percentage |-> Pct(net_profit, total_cost),
     roi_percentage |-> Pct(net_profit, total_cost)]

\* lines 130-166: the second strategy, reached when the first returned nothing
CalculateStrategy2(kalshi_market, polymarket_market, threshold) ==
    LET cost2_poly_yes == Get(polymarket_market, "yes_price", 0)
        cost2_kalshi_no == Get(kalshi_market, "no_ask", 0)
        total_cost2 == cost2_poly_yes + cost2_kalshi_no
        gross_profit == One - total_cost2
        kalshi_profit_fee == Mul(gross_profit, kalshi_fee_rate)
        net_profit == gross_profit - kalshi_profit_fee - polymarket_gas
    IN  IF total_cost2 < One
        THEN IF total_cost2 = 0
             THEN Raise("ZeroDivisionError")
             ELSE IF PctGE(Pct(net_profit, total_cost2), threshold)
                  THEN Return(<<CrossOpportunity(kalshi_market, polymarket_market,
                                   "buy yes on polymarket, no on kalshi",
                                   "no", cost2_kalshi_no, "yes", cost2_poly_yes,
                                   total_cost2, gross_profit, kalshi_profit_fee,
                                   polymarket_gas, net_profit)>>)
                  ELSE Return(<<>>)
        ELSE Return(<<>>)

\* lines 80-128: the first strategy
CalculateStrategy1(kalshi_market, polymarket_market, threshold) ==
    LET cost1_kalshi_yes == Get(kalshi_market, "yes_ask", 0)
        cost1_poly_no == Get(polymarket_market, "no_price", 0)
        total_cost1 == cost1_kalshi_yes + cost1_poly_no
        gross_profit == One - total_cost1
        kalshi_profit_fee == Mul(gross_profit, kalshi_fee_rate)
        net_profit == gross_profit - kalshi_profit_fee - polymarket_gas
    IN  IF total_cost1 < One
        THEN IF total_cost1 = 0
             THEN Raise("ZeroDivisionError")
             ELSE IF PctGE(Pct(net_profit, total_cost1), threshold)
                  THEN Return(<<CrossOpportunity(kalshi_market, polymarket_market,
                                   "buy yes on kalshi, no on polymarket",
                                   "yes", cost1_kalshi_yes, "no", cost1_poly_no,
                                   total_cost1, gross_profit, kalshi_profit_fee,
                                   polymarket_gas, net_profit)>>)
                  ELSE Return(<<>>)
        ELSE Return(<<>>)

\* a strategy-1 return (or exception) ends the call; otherwise strategy 2 decides
CalculateArbitrage(kalshi_market, polymarket_market, threshold) ==
    LET k_yes_ask == Get(kalshi_market, "yes_ask", 0)
        k_no_ask == Get(kalshi_market, "no_ask", 0)
        p_yes_price == Get(polymarket_market, "yes_price", 0)
        p_no_price == Get(polymarket_market, "no_price", 0)
        first == CalculateStrategy1(kalshi_market, polymarket_market, threshold)
    IN  IF ~(Truthy(k_yes_ask) /\ Truthy(k_no_ask)
             /\ Truthy(p_yes_price) /\ Truthy(p_no_price))
        THEN Return(<<>>)
        ELSE IF first # Return(<<>>)
             THEN first
             ELSE CalculateStrategy2(kalshi_market, polymarket_market, threshold)

-----------------------------------------------------------------------------
(* arbitragescanner.find_internal_arbitrage: the body of each loop, for    *)
(* one market of the fetched list                                         *)

\* lines 197-220: the opportunity appended for a kalshi market
KalshiInternalOpportunity(market, yes_ask, no_ask, total_cost, gross_profit, kalshi_fee, net_profit) ==
    [type |-> "internal_arbitrage",
     platform |-> "kalshi",
     market |-> Get(market, "ticker", ""),
     title |-> Get(market, "title", <<>>),
     trade_details |-> [buy_yes_at |-> yes_ask, buy_no_at |-> no_ask,
                        position_size |-> One],
     yes_ask |-> yes_ask,
     no_ask |-> no_ask,
     total_cost |-> total_cost,
     gross_profit |-> gross_profit,
     fees |-> [platform_fee |-> kalshi_fee, gas_fee |-> 0,
               total_fees |-> kalshi_fee],
     net_profit |-> net_profit,
     profit_percentage |-> Pct(net_profit, total_cost),
     roi_percentage |-> Pct(net_profit, total_cost)]

\* InternalKalshi with the guard of line 187 written with "or"
InternalKalshiEitherQuoted(market, threshold) ==
    LET yes_ask == IF Truthy(Get(market, "yes_ask", 0))
                   THEN DivBy100(Get(market, "yes_ask", 0)) ELSE 0
        no_ask == IF Truthy(Get(market, "no_ask", 0))
                  THEN DivBy100(Get(market, "no_ask", 0)) ELSE 0
        total_cost == yes_ask + no_ask
        gross_profit == One - total_cost
        kalshi_fee == Mul(gross_profit, kalshi_fee_rate)
        net_profit == gross_profit - kalshi_fee
    IN  IF (Truthy(yes_ask) \/ Truthy(no_ask)) /\ total_cost < One
        THEN IF total_cost = 0
             THEN Raise("ZeroDivisionError")
             ELSE IF PctGE(Pct(net_profit, total_cost), threshold)
                  THEN Return(<<KalshiInternalOpportunity(market, yes_ask, no_ask,
                                    total_cost, gross_profit, kalshi_fee,
                                    net_profit)>>)
                  ELSE Return(<<>>)
        ELSE Return(<<>>)

InternalKalshi(market, threshold) ==
    LET yes_ask == IF Truthy(Get(market, "yes_ask", 0))
                   THEN DivBy100(Get(market, "yes_ask", 0)) ELSE 0
        no_ask == IF Truthy(Get(market, "no_ask", 0))
                  THEN DivBy100(Get(market, "no_ask", 0)) ELSE 0
        total_cost == yes_ask + no_ask
        gross_profit == One - total_cost
        kalshi_fee == Mul(gross_profit, kalshi_fee_rate)
        net_profit == gross_profit - kalshi_fee
    IN  IF Truthy(yes_ask) /\ Truthy(no_ask) /\ total_cost < One
        THEN IF total_cost = 0
             THEN Raise("ZeroDivisionError")
             ELSE IF PctGE(Pct(net_profit, total_cost), threshold)
                  THEN Return(<<KalshiInternalOpportunity(market, yes_ask, no_ask,
                                    total_cost, gross_profit, kalshi_fee,
                                    net_profit)>>)
                  ELSE Return(<<>>)
        ELSE Return(<<>>)

\* PolymarketInternalOpportunity with the gas fee left out of total_fees
PolymarketInternalOpportunityFeeFree(market, yes_price, no_price, total_cost, gross_profit, gas_fee, net_profit) ==
    [type |-> "internal_arbitrage",
     platform |-> "polymarket",
     market |-> Get(market, "condition_id", ""),
     question |-> Get(market, "question", <<>>),
     trade_details |-> [buy_yes_at |-> yes_price, buy_no_at |-> no_price,
                        yes_token_id |-> Get(market, "yes_token_id", ""),
                        no_token_id |-> Get(market, "no_token_id", ""),
                        position_size |-> One],
     yes_price |-> yes_price,
     no_price |-> no_price,
     total_cost |-> total_cost,
     gross_profit |-> gross_profit,
     fees |-> [platform_fee |-> 0, gas_fee |-> gas_fee, total_fees |-> 0],
     net_profit |-> net_profit,
     profit_percentage |-> Pct(net_profit, total_cost),
     roi_percentage |-> Pct(net_profit, total_cost)]

\* lines 239-264: the opportunity appended for a polymarket market
PolymarketInternalOpportunity(market, yes_price, no_price, total_cost, gross_profit, gas_fee, net_profit) ==
    [type |-> "internal_arbitrage",
     platform |-> "polymarket",
     market |-> Get(market, "condition_id", ""),
     question |-> Get(market, "question", <<>>),
     trade_details |-> [buy_yes_at |-> yes_price, buy_no_at |-> no_price,
                        yes_token_id |-> Get(market, "yes_token_id", ""),
                        no_token_id |-> Get(market, "no_token_id", ""),
                        position_size |-> One],
     yes_price |-> yes_price,
     no_price |-> no_price,
     total_cost |-> total_cost,
     gross_profit |-> gross_profit,
     fees |-> [platform_fee |-> 0, gas_fee |-> gas_fee, total_fees |-> gas_fee],
     net_profit |-> net_profit,
     profit_percentage |-> Pct(net_profit, total_cost),
     roi_percentage |-> Pct(net_profit, total_cost)]

InternalPolymarket(market, threshold) ==
    LET yes_price == Get(market, "yes_price", 0)
        no_price == Get(market, "no_price", 0)
        total_cost == yes_price + no_price
        gross_profit == One - total_cost
        gas_fee == polymarket_gas
        net_profit == gross_profit - gas_fee
    IN  IF Truthy(yes_price) /\ Truthy(no_price) /\ total_cost < One
        THEN IF total_cost = 0
             THEN Raise("ZeroDivisionError")
             ELSE IF PctGE(Pct(net_profit, total_cost), threshold)
                  THEN Return(<<PolymarketInternalOpportunity(market, yes_price,
                                    no_price, total_cost, gross_profit, gas_fee,
                                    net_profit)>>)
                  ELSE Return(<<>>)
        ELSE Return(<<>>)

-----------------------------------------------------------------------------
(* kalshiclient.get_market_details: the record served for one ticker, with *)
(* prices converted from cents; {} when the request or the parsing fails.  *)

GetMarketDetails(market, ok) ==
    IF ~ok
    THEN EmptyDict
    ELSE [ticker |-> Get(market, "ticker", ""),
          title |-> Get(market, "title", <<>>),
          yes_bid |-> DivBy100(Get(market, "yes_bid", 0)),
          yes_ask |-> DivBy100(Get(market, "yes_ask", 0)),
          no_bid |-> DivBy100(Get(market, "no_bid", 0)),
          no_ask |-> DivBy100(Get(market, "no_ask", 0)),
          volume |-> Get(market, "volume", 0),
          open_interest |-> Get(market, "open_interest", 0)]

-----------------------------------------------------------------------------
(* valuescanner.find_mispriced_markets: the body of each loop *)

\* KalshiValueBet with the 7% fee of lines 50 and 90 taken on the price paid
KalshiValueBetFeeOnPrice(ticker, details, side, price, fair_value, edge) ==
    LET expected_profit == edge
        kalshi_fee == Mul(price, kalshi_fee_rate)
        net_profit == expected_profit - kalshi_fee
    IN  [type |-> "value_bet",
         platform |-> "kalshi",
         market |-> ticker,
         title |-> Get(details, "title", <<>>),
         side |-> side,
         trade_details |-> [entry_price |-> price, position_size |-> One,
                            max_payout |-> One],
         price |-> price,
         fair_value |-> fair_value,
         edge |-> edge,
         edge_percentage |-> edge * 100,
         expected_profit |-> expected_profit,
         fees |-> [platform_fee |-> kalshi_fee, gas_fee |-> 0,
                   total_fees |-> kalshi_fee],
         net_expected_profit |-> net_profit,
         roi_percentage |-> Pct(net_profit, price),
         volume |-> Get(details, "volume", 0),
         liquidity |-> Get(details, "open_interest", 0)]

KalshiValueBet(ticker, details, side, price, fair_value, edge) ==
    LET expected_profit == edge
        kalshi_fee == Mul(expected_profit, kalshi_fee_rate)
        net_profit == expected_profit - kalshi_fee
    IN  [type |-> "value_bet",
         platform |-> "kalshi",
         market |-> ticker,
         title |-> Get(details, "title", <<>>),
         side |-> side,
         trade_details |-> [entry_price |-> price, position_size |-> One,
                            max_payout |-> One],
         price |-> price,
         fair_value |-> fair_value,
         edge |-> edge,
         edge_percentage |-> edge * 100,
         expected_profit |-> expected_profit,
         fees |-> [platform_fee |-> kalshi_fee, gas_fee |-> 0,
                   total_fees |-> kalshi_fee],
         net_expected_profit |-> net_profit,
         roi_percentage |-> Pct(net_profit, price),
         volume |-> Get(details, "volume", 0),
         liquidity |-> Get(details, "open_interest", 0)]

\* ValueKalshi with the comparisons of lines 48 and 88 written ">="
ValueKalshiAtLeast(market, details_ok, edge_min) ==
    LET ticker == Get(market, "ticker", "")
        details == GetMarketDetails(market, details_ok)
        yes_ask == Get(details, "yes_ask", 0)
        no_ask == Get(details, "no_ask", 0)
        yes_bid == Get(details, "yes_bid", 0)
        no_bid == Get(details, "no_bid", 0)
        fair_value_yes == One - no_ask
        edge_yes == fair_value_yes - yes_ask
        fair_value_no == One - yes_ask
        edge_no == fair_value_no - no_ask
        yes_side == IF yes_bid > 0 /\ edge_yes >= edge_min
                    THEN <<KalshiValueBet(ticker, details, "yes", yes_ask,
                                          fair_value_yes, edge_yes)>>
                    ELSE <<>>
        no_side == IF no_bid > 0 /\ edge_no >= edge_min
                   THEN <<KalshiValueBet(ticker, details, "no", no_ask,
                                         fair_value_no, edge_no)>>
                   ELSE <<>>
    IN  IF Truthy(yes_ask) /\ Truthy(no_ask)
        THEN IF (yes_side # <<>> /\ yes_ask = 0) \/ (no_side # <<>> /\ no_ask = 0)
             THEN Raise("ZeroDivisionError")
             ELSE Return(yes_side \o no_side)
        ELSE Return(<<>>)

ValueKalshi(market, details_ok, edge_min) ==
    LET ticker == Get(market, "ticker", "")
        details == GetMarketDetails(market, details_ok)
        yes_ask == Get(details, "yes_ask", 0)
        no_ask == Get(details, "no_ask", 0)
        yes_bid == Get(details, "yes_bid", 0)
        no_bid == Get(details, "no_bid", 0)
        fair_value_yes == One - no_ask
        edge_yes == fair_value_yes - yes_ask
        fair_value_no == One - yes_ask
        edge_no == fair_value_no - no_ask
        yes_side == IF yes_bid > 0 /\ edge_yes > edge_min
                    THEN <<KalshiValueBet(ticker, details, "yes", yes_ask,
                                          fair_value_yes, edge_yes)>>
                    ELSE <<>>
        no_side == IF no_bid > 0 /\ edge_no > edge_min
                   THEN <<KalshiValueBet(ticker, details, "no", no_ask,
                                         fair_value_no, edge_no)>>
                   ELSE <<>>
    IN  IF Truthy(yes_ask) /\ Truthy(no_ask)
        THEN IF (yes_side # <<>> /\ yes_ask = 0) \/ (no_side # <<>> /\ no_ask = 0)
             THEN Raise("ZeroDivisionError")
             ELSE Return(yes_side \o no_side)
        ELSE Return(<<>>)

PolymarketValueBet(market, side, price, token_id, fair_value, edge) ==
    LET expected_profit == edge
        gas_fee == polymarket_gas
        net_profit == expected_profit - gas_fee
    IN  [type |-> "value_bet",
         platform |-> "polymarket",
         market |-> Get(market, "condition_id", ""),
         question |-> Get(market, "question", <<>>),
         side |-> side,
         trade_details |-> [entry_price |-> price, token_id |-> token_id,
                            position_size |-> One, max_payout |-> One],
         price |-> price,
         fair_value |-> fair_value,
         edge |-> edge,
         edge_percentage |-> edge * 100,
         expected_profit |-> expected_profit,
         fees |-> [platform_fee |-> 0, gas_fee |-> gas_fee,
                   total_fees |-> gas_fee],
         net_expected_profit |-> net_profit,
         roi_percentage |-> IF price > 0 THEN Pct(net_profit, price)
                                         ELSE Pct(0, One),
         volume |-> Get(market, "volume", 0),
         liquidity |-> Get(market, "liquidity", 0)]

ValuePolymarket(market, edge_min) ==
    LET yes_price == Get(market, "yes_price", 0)
        no_price == Get(market, "no_price", 0)
        fair_value_yes == One - no_price
        edge_yes == fair_value_yes - yes_price
        fair_value_no == One - yes_price
        edge_no == fair_value_no - no_price
        yes_side == IF edge_yes > edge_min
                    THEN <<PolymarketValueBet(market, "yes", yes_price,
                               Get(market, "yes_token_id", ""),
                               fair_value_yes, edge_yes)>>
                    ELSE <<>>
        no_side == IF edge_no > edge_min
                   THEN <<PolymarketValueBet(market, "no", no_price,
                              Get(market, "no_token_id", ""),
                              fair_value_no, edge_no)>>
                   ELSE <<>>
    IN  IF Truthy(yes_price) /\ Truthy(no_price)
        THEN Return(yes_side \o no_side)
        ELSE Return(<<>>)

-----------------------------------------------------------------------------
(* The polymarket value check in Python's floats.  The prices, 1.0 and     *)
(* min_edge are binary64 values, and each subtraction of lines 130-131 and *)
(* 166-167 rounds its exact result to the nearest binary64, ties to the    *)
(* even significand.  A value is written [h, e] and stands for             *)
(* (h * 2^59 + e) / (100 * 2^59): h counts hundredths and e is what        *)
(* rounding has added, in hundredths of 2^-59.  Every binary64 from 0.01   *)
(* up to 2 is a whole number of 2^-59, so the prices quoted in whole       *)
(* hundredths and their differences are written exactly.                   *)

RECURSIVE TwoToThe(_)
TwoToThe(n) == IF n = 0 THEN 1 ELSE 2 * TwoToThe(n - 1)

RECURSIVE TwoToTheMod(_, _)
TwoToTheMod(n, g) == IF n = 0 THEN 1 % g ELSE (2 * TwoToTheMod(n - 1, g)) % g

\* x, positive, is at least 2^-m
AtLeastHalved(x, m) ==
    \/ x.h * TwoToThe(m) > 100
    \/ x.h * TwoToThe(m) = 100 /\ x.e >= 0

\* the binade of x, positive and below 2: 2^-m <= x < 2^(1-m)
Halvings(x) ==
    CHOOSE m \in 0..7 : /\ AtLeastHalved(x, m)
                        /\ \A k \in 0..(m - 1) : ~AtLeastHalved(x, k)

\* x, positive, rounded to the 53 significant bits of its binade: there the
\* binary64 values are 2^(-m-52) apart, which is 2^(7-m) units of 2^-59
FloatRoundPositive(x) ==
    LET ulp == 100 * TwoToThe(7 - Halvings(x))
        above == (x.h * TwoToTheMod(59, ulp) + x.e) % ulp
        above_even == (x.h * TwoToTheMod(59, 2 * ulp) + x.e) % (2 * ulp)
    IN  IF above = 0
        THEN x
        ELSE IF 2 * above < ulp \/ (2 * above = ulp /\ above_even = above)
             THEN [x EXCEPT !.e = @ - above]
             ELSE [x EXCEPT !.e = @ + (ulp - above)]

FloatNegated(x) == [h |-> 0 - x.h, e |-> 0 - x.e]

\* a value below 2^-7 that is a whole number of 2^-59 is a binary64 already
FloatRound(x) ==
    IF x.h = 0
    THEN x
    ELSE IF x.h < 0
         THEN FloatNegated(FloatRoundPositive(FloatNegated(x)))
         ELSE FloatRoundPositive(x)

\* the float of a number of whole hundredths, kept at scale One in the records
Float(number) == FloatRound([h |-> number \div (One \div 100), e |-> 0])

FloatSub(a, b) == FloatRound([h |-> a.h - b.h, e |-> a.e - b.e])

FloatGreater(a, b) == a.h > b.h \/ (a.h = b.h /\ a.e > b.e)

\* lines 125-206 on one market: the bets appended, each with its side, its
\* price and the edge the comparison of line 134 or 173 was made on
ValuePolymarketFloat(market, edge_min) ==
    LET yes_price == Get(market, "yes_price", 0)
        no_price == Get(market, "no_price", 0)
        fair_value_yes == FloatSub(Float(One), Float(no_price))
        edge_yes == FloatSub(fair_value_yes, Float(yes_price))
        fair_value_no == FloatSub(Float(One), Float(yes_price))
        edge_no == FloatSub(fair_value_no, Float(no_price))
        yes_side == IF FloatGreater(edge_yes, Float(edge_min))
                    THEN <<[type |-> "value_bet", platform |-> "polymarket",
                            market |-> Get(market, "condition_id", ""),
                            side |-> "yes", price |-> yes_price,
                            fair_value |-> fair_value_yes, edge |-> edge_yes]>>
                    ELSE <<>>
        no_side == IF FloatGreater(edge_no, Float(edge_min))
                   THEN <<[type |-> "value_bet", platform |-> "polymarket",
                           market |-> Get(market, "condition_id", ""),
                           side |-> "no", price |-> no_price,
                           fair_value |-> fair_value_no, edge |-> edge_no]>>
                   ELSE <<>>
    IN  IF Truthy(yes_price) /\ Truthy(no_price)
        THEN Return(yes_side \o no_side)
        ELSE Return(<<>>)

-----------------------------------------------------------------------------
(* valuescanner.find_extreme_probabilities: the body of each loop *)

\* ExtremeKalshi with the comparisons of line 226 written ">=" and "<="
ExtremeKalshiAtLeast(market, details_ok, threshold) ==
    LET ticker == Get(market, "ticker", "")
        details == GetMarketDetails(market, details_ok)
        yes_ask == Get(details, "yes_ask", 0)
    IN  IF yes_ask >= threshold \/ yes_ask <= (One - threshold)
        THEN Return(<<[type |-> "extreme_probability",
                       platform |-> "kalshi",
                       market |-> ticker,
                       title |-> Get(details, "title", <<>>),
                       yes_price |-> yes_ask,
                       confidence |-> IF yes_ask > threshold
                                      THEN "high_yes" ELSE "high_no",
                       volume |-> Get(details, "volume", 0),
                       liquidity |-> Get(details, "open_interest", 0)]>>)
        ELSE Return(<<>>)

ExtremeKalshi(market, details_ok, threshold) ==
    LET ticker == Get(market, "ticker", "")
        details == GetMarketDetails(market, details_ok)
        yes_ask == Get(details, "yes_ask", 0)
    IN  IF yes_ask > threshold \/ yes_ask < (One - threshold)
        THEN Return(<<[type |-> "extreme_probability",
                       platform |-> "kalshi",
                       market |-> ticker,
                       title |-> Get(details, "title", <<>>),
                       yes_price |-> yes_ask,
                       confidence |-> IF yes_ask > threshold
                                      THEN "high_yes" ELSE "high_no",
                       volume |-> Get(details, "volume", 0),
                       liquidity |-> Get(details, "open_interest", 0)]>>)
        ELSE Return(<<>>)

ExtremePolymarket(market, threshold) ==
    LET yes_price == Get(market, "yes_price", 0)
    IN  IF yes_price > threshold \/ yes_price < (One - threshold)
        THEN Return(<<[type |-> "extreme_probability",
                       platform |-> "polymarket",
                       market |-> Get(market, "condition_id", ""),
                       question |-> Get(market, "question", <<>>),
                       yes_price |-> yes_price,
                       confidence |-> IF yes_price > threshold
                                      THEN "high_yes" ELSE "high_no",
                       volume |-> Get(market, "volume", 0),
                       liquidity |-> Get(market, "liquidity", 0)]>>)
        ELSE Return(<<>>)

-----------------------------------------------------------------------------
(* Strings.  A Python str is a sequence of one-character strings.          *)

UpperChars == <<"W", "F", "M", "Y", "N">>

LowerChars == <<"w", "f", "m", "y", "n">>

Whitespace == {" "}

\* str.lower(), character by character
LowerChar(c) ==
    IF \E i \in 1..Len(UpperChars) : UpperChars[i] = c
    THEN LowerChars[CHOOSE i \in 1..Len(UpperChars) : UpperChars[i] = c]
    ELSE c

Lower(str) == [i \in 1..Len(str) |-> LowerChar(str[i])]

\* str.split(): the maximal runs of non-whitespace characters, in order
RECURSIVE SplitFrom(_, _, _)
SplitFrom(str, i, word) ==
    IF i > Len(str)
    THEN IF word = <<>> THEN <<>> ELSE <<word>>
    ELSE IF str[i] \in Whitespace
         THEN IF word = <<>>
              THEN SplitFrom(str, i + 1, <<>>)
              ELSE <<word>> \o SplitFrom(str, i + 1, <<>>)
         ELSE SplitFrom(str, i + 1, Append(word, str[i]))

Split(str) == SplitFrom(str, 1, <<>>)

-----------------------------------------------------------------------------
(* arbitragescanner._markets_match *)

skip_words ==
    {<<"w", "i", "l", "l">>, <<"t", "h", "e">>, <<"b", "e">>, <<"a">>,
     <<"a", "n">>, <<"i", "n">>, <<"o", "n">>, <<"a", "t">>, <<"t", "o">>,
     <<"f", "o", "r">>}

KeyWords(title) ==
    LET words == Split(title)
    IN  {words[i] : i \in {j \in 1..Len(words) :
                             words[j] \notin skip_words /\ Len(words[j]) > 2}}

Min(a, b) == IF a <= b THEN a ELSE b

\* MarketsMatch with the comparison of line 62 written ">= 0.5"
MarketsMatchAtLeastHalf(title1, title2) ==
    LET words1 == KeyWords(title1)
        words2 == KeyWords(title2)
        overlap == Rat(Cardinality(words1 \cap words2),
                       Min(Cardinality(words1), Cardinality(words2)))
    IN  IF words1 = {} \/ words2 = {}
        THEN FALSE
        ELSE 2 * overlap.num >= overlap.den

\* MarketsMatch with the overlap of line 61 taken over len(words1)
MarketsMatchOverFirst(title1, title2) ==
    LET words1 == KeyWords(title1)
        words2 == KeyWords(title2)
        overlap == Rat(Cardinality(words1 \cap words2), Cardinality(words1))
    IN  IF words1 = {} \/ words2 = {}
        THEN FALSE
        ELSE 2 * overlap.num > overlap.den

MarketsMatch(title1, title2) ==
    LET words1 == KeyWords(title1)
        words2 == KeyWords(title2)
        overlap == Rat(Cardinality(words1 \cap words2),
                       Min(Cardinality(words1), Cardinality(words2)))
    IN  IF words1 = {} \/ words2 = {}
        THEN FALSE
        ELSE 2 * overlap.num > overlap.den

-----------------------------------------------------------------------------
(* sorted(opportunities, key=lambda x: x[key], reverse=True): a stable     *)
(* sort, so entries with equal keys keep their order.                       *)

Abs(x) == IF x < 0 THEN -x ELSE x

KeyLess(a, b, key) ==
    CASE key = "profit_percentage" ->
             RatLess(a.profit_percentage, b.profit_percentage)
      [] key = "edge_percentage" ->
             a.edge_percentage < b.edge_percentage
      [] key = "abs(yes_price - 0.5)" ->
             Abs(a.yes_price - Hundredths(50)) < Abs(b.yes_price - Hundredths(50))

\* InsertDesc with the new entry placed before the entries of equal key
RECURSIVE InsertBeforeEqual(_, _, _)
InsertBeforeEqual(sorted, x, key) ==
    IF sorted = <<>>
    THEN <<x>>
    ELSE IF ~KeyLess(x, Head(sorted), key)
         THEN <<x>> \o sorted
         ELSE <<Head(sorted)>> \o InsertBeforeEqual(Tail(sorted), x, key)

RECURSIVE InsertDesc(_, _, _)
InsertDesc(sorted, x, key) ==
    IF sorted = <<>>
    THEN <<x>>
    ELSE IF KeyLess(Head(sorted), x, key)
         THEN <<x>> \o sorted
         ELSE <<Head(sorted)>> \o InsertDesc(Tail(sorted), x, key)

RECURSIVE SortedDesc(_, _)
SortedDesc(seq, key) ==
    IF seq = <<>>
    THEN <<>>
    ELSE InsertDesc(SortedDesc(SubSeq(seq, 1, Len(seq) - 1), key),
                    seq[Len(seq)], key)

-----------------------------------------------------------------------------
(* arbitragescanner.find_cross_platform_arbitrage, lines 35-47: the loops   *)
(* over the two fetched lists, then the sort.                               *)

\* lines 36-42: the pairing decision for one kalshi and one polymarket market
PairMatches(k_market, p_market) ==
    LET k_title == Lower(Get(k_market, "title", <<>>))
        p_question == Lower(Get(p_market, "question", <<>>))
    IN  MarketsMatch(k_title, p_question)

RECURSIVE CrossInner(_, _, _, _)
CrossInner(k_market, polymarket_markets, j, threshold) ==
    IF j > Len(polymarket_markets)
    THEN Return(<<>>)
    ELSE LET p_market == polymarket_markets[j]
             arb == IF PairMatches(k_market, p_market)
                    THEN CalculateArbitrage(k_market, p_market, threshold)
                    ELSE Return(<<>>)
             rest == CrossInner(k_market, polymarket_markets, j + 1, threshold)
         IN  IF arb.exc # "none" THEN arb
             ELSE IF rest.exc # "none" THEN rest
             ELSE Return(arb.opps \o rest.opps)

RECURSIVE CrossOuter(_, _, _, _)
CrossOuter(kalshi_markets, polymarket_markets, i, threshold) ==
    IF i > Len(kalshi_markets)
    THEN Return(<<>>)
    ELSE LET row == CrossInner(kalshi_markets[i], polymarket_markets, 1, threshold)
             rest == CrossOuter(kalshi_markets, polymarket_markets, i + 1, threshold)
         IN  IF row.exc # "none" THEN row
             ELSE IF rest.exc # "none" THEN rest
             ELSE Return(row.opps \o rest.opps)

CrossPlatformLoop(kalshi_markets, polymarket_markets, threshold) ==
    LET found == CrossOuter(kalshi_markets, polymarket_markets, 1, threshold)
    IN  IF found.exc # "none"
        THEN found
        ELSE Return(SortedDesc(found.opps, "profit_percentage"))

-----------------------------------------------------------------------------
(* polymarketclient.get_simplified_markets, lines 116-135: the records the *)
(* scanners read, built from the raw markets of the venue.                 *)

RECURSIVE FirstToken(_, _)
FirstToken(tokens, outcome) ==
    IF tokens = <<>>
    THEN <<>>
    ELSE IF Lower(Get(Head(tokens), "outcome", <<>>)) = outcome
         THEN <<Head(tokens)>>
         ELSE FirstToken(Tail(tokens), outcome)

RECURSIVE SimplifiedMarkets(_)
SimplifiedMarkets(markets) ==
    IF markets = <<>>
    THEN <<>>
    ELSE LET market == Head(markets)
             tokens == Get(market, "tokens", <<>>)
             yes_token == FirstToken(tokens, <<"y", "e", "s">>)
             no_token == FirstToken(tokens, <<"n", "o">>)
             rest == SimplifiedMarkets(Tail(markets))
         IN  IF ~Get(market, "active", FALSE)
             THEN rest
             ELSE IF yes_token # <<>> /\ no_token # <<>>
                  THEN <<[condition_id |-> Get(market, "condition_id", ""),
                          question |-> Get(market, "question", <<>>),
                          yes_price |-> Get(yes_token[1], "price", 0),
                          no_price |-> Get(no_token[1], "price", 0),
                          yes_token_id |-> Get(yes_token[1], "token_id", ""),
                          no_token_id |-> Get(no_token[1], "token_id", ""),
                          volume |-> Get(market, "volume", 0),
                          liquidity |-> Get(market, "liquidity", 0)]>> \o rest
                  ELSE rest

-----------------------------------------------------------------------------
(* The two clients a scanner is constructed with (self.kalshi,             *)
(* self.polymarket), as what they answer during one scan:                  *)
(*   kalshi     = [ok, markets, failing]: whether the /markets request     *)
(*                succeeds, the markets it serves, and the tickers whose   *)
(*                /markets/{ticker} request fails;                         *)
(*   polymarket = [declares_window, ok, markets]: whether the client's     *)
(*                get_simplified_markets declares the parameter the        *)
(*                scanners pass, whether the /markets request succeeds,    *)
(*                and the raw markets it serves.                           *)

Fetched(markets) == [exc |-> "none", markets |-> markets]

FetchRaises(e) == [exc |-> e, markets |-> <<>>]

\* the kalshi client as it answers the n-th get_markets request of a call: a
\* venue whose listing changes during the call (a client with a field
\* "later") serves markets to the first request and later to the next ones
ServedAt(kalshi, n) ==
    IF "later" \in DOMAIN kalshi /\ n > 1
    THEN [kalshi EXCEPT !.markets = kalshi.later]
    ELSE kalshi

\* kalshiclient.get_markets: the markets of the response, [] on any failure
GetMarkets(kalshi) == IF kalshi.ok THEN kalshi.markets ELSE <<>>

\* polymarketclient.get_markets: the response, [] on any failure
PolymarketGetMarkets(polymarket) ==
    IF polymarket.ok THEN polymarket.markets ELSE <<>>

\* the call get_simplified_markets(self.time_window_hours): one positional
\* argument, which polymarketclient.get_simplified_markets(self) does not
\* declare
GetSimplifiedMarkets(polymarket) ==
    IF ~polymarket.declares_window
    THEN FetchRaises("TypeError")
    ELSE Fetched(SimplifiedMarkets(PolymarketGetMarkets(polymarket)))

\* an Optional[float]: None is <<>> and a number of hours h is <<h>>
None == <<>>

Hours(h) == <<h>>

\* `if self.time_window_hours:`
WindowSet(hours) == hours # None /\ hours[1] # 0

\* the keyword arguments of the get_markets call of the arbitrage scanner
\* (kalshi_params)
ArbitrageKalshiParams(hours) ==
    IF WindowSet(hours) THEN {"limit", "max_close_ts"} ELSE {"limit"}

\* the keyword arguments of the get_markets call of the value scanner
ValueKalshiParams == {"limit"}

\* self.kalshi.get_markets(**params): kalshiclient.get_markets declares limit
\* and status, and a call with another keyword raises
GetMarketsWith(kalshi, params) ==
    IF params \subseteq {"limit", "status"}
    THEN Fetched(GetMarkets(kalshi))
    ELSE FetchRaises("TypeError")

\* what a scanner asks of a client for a snapshot, with the time filter the
\* call carries (None when it carries none)
KalshiRequest(params, hours) ==
    [venue |-> "kalshi", filter |-> IF "max_close_ts" \in params THEN hours ELSE None]

PolymarketRequest(hours) == [venue |-> "polymarket", filter |-> hours]

\* opportunities.append / extend over a for loop: what each market yields, in
\* order, up to the first exception
RECURSIVE Collect(_)
Collect(results) ==
    IF results = <<>>
    THEN Return(<<>>)
    ELSE IF Head(results).exc # "none"
         THEN Head(results)
         ELSE LET rest == Collect(Tail(results))
              IN  IF rest.exc # "none"
                  THEN rest
                  ELSE Return(Head(results).opps \o rest.opps)

\* return sorted(opportunities, key=..., reverse=True)
ReturnSorted(found, key) ==
    IF found.exc # "none" THEN found ELSE Return(SortedDesc(found.opps, key))

-----------------------------------------------------------------------------
(* arbitragescanner.find_cross_platform_arbitrage and                      *)
(* arbitragescanner.find_internal_arbitrage, with their fetches.  Each     *)
(* method is written as its fetches followed by the rest of its body,      *)
(* which takes what the fetches answered.                                  *)

\* lines 35-47, after the two fetches of lines 31-32
CrossPlatformBody(kalshi_markets, polymarket_markets, threshold) ==
    IF kalshi_markets.exc # "none"
    THEN Raise(kalshi_markets.exc)
    ELSE IF polymarket_markets.exc # "none"
         THEN Raise(polymarket_markets.exc)
         ELSE CrossPlatformLoop(kalshi_markets.markets, polymarket_markets.markets,
                                threshold)

FindCrossPlatformArbitrage(kalshi, polymarket, threshold, hours) ==
    CrossPlatformBody(GetMarketsWith(kalshi, ArbitrageKalshiParams(hours)),
                      GetSimplifiedMarkets(polymarket), threshold)

\* lines 183-220 and 266, after the fetch of line 181
InternalKalshiBody(markets, threshold) ==
    IF markets.exc # "none"
    THEN Raise(markets.exc)
    ELSE ReturnSorted(Collect([i \in 1..Len(markets.markets) |->
                                  InternalKalshi(markets.markets[i], threshold)]),
                      "profit_percentage")

\* lines 225-264 and 266, after the fetch of line 223
InternalPolymarketBody(markets, threshold) ==
    IF markets.exc # "none"
    THEN Raise(markets.exc)
    ELSE ReturnSorted(Collect([i \in 1..Len(markets.markets) |->
                                  InternalPolymarket(markets.markets[i], threshold)]),
                      "profit_percentage")

FindInternalArbitrage(kalshi, polymarket, platform, threshold, hours) ==
    IF platform = "kalshi"
    THEN InternalKalshiBody(GetMarketsWith(kalshi, ArbitrageKalshiParams(hours)),
                            threshold)
    ELSE IF platform = "polymarket"
         THEN InternalPolymarketBody(GetSimplifiedMarkets(polymarket), threshold)
         ELSE Return(<<>>)

-----------------------------------------------------------------------------
(* valuescanner.find_mispriced_markets, find_extreme_probabilities and     *)
(* find_high_liquidity_value, with their fetches                           *)

\* whether get_market_details answers for the ticker of a listed market
DetailsOk(kalshi, market) == Get(market, "ticker", "") \notin kalshi.failing

\* lines 28-120 and 208, after the fetch of line 26
ValueKalshiBody(kalshi, markets, edge_min) ==
    ReturnSorted(Collect([i \in 1..Len(markets) |->
                             ValueKalshi(markets[i], DetailsOk(kalshi, markets[i]),
                                         edge_min)]),
                 "edge_percentage")

\* lines 125-208, after the fetch of line 123
ValuePolymarketBody(markets, edge_min) ==
    IF markets.exc # "none"
    THEN Raise(markets.exc)
    ELSE ReturnSorted(Collect([i \in 1..Len(markets.markets) |->
                                  ValuePolymarket(markets.markets[i], edge_min)]),
                      "edge_percentage")

FindMispricedMarkets(kalshi, polymarket, platform, edge_min) ==
    IF platform = "kalshi"
    THEN ValueKalshiBody(kalshi, GetMarkets(kalshi), edge_min)
    ELSE IF platform = "polymarket"
         THEN ValuePolymarketBody(GetSimplifiedMarkets(polymarket), edge_min)
         ELSE Return(<<>>)

\* lines 220-238 and 260, after the fetch of line 218
ExtremeKalshiBody(kalshi, markets, threshold) ==
    ReturnSorted(Collect([i \in 1..Len(markets) |->
                             ExtremeKalshi(markets[i], DetailsOk(kalshi, markets[i]),
                                           threshold)]),
                 "abs(yes_price - 0.5)")

\* lines 243-260, after the fetch of line 241
ExtremePolymarketBody(markets, threshold) ==
    IF markets.exc # "none"
    THEN Raise(markets.exc)
    ELSE ReturnSorted(Collect([i \in 1..Len(markets.markets) |->
                                  ExtremePolymarket(markets.markets[i], threshold)]),
                      "abs(yes_price - 0.5)")

FindExtremeProbabilities(kalshi, polymarket, platform, threshold) ==
    IF platform = "kalshi"
    THEN ExtremeKalshiBody(kalshi, GetMarkets(kalshi), threshold)
    ELSE IF platform = "polymarket"
         THEN ExtremePolymarketBody(GetSimplifiedMarkets(polymarket), threshold)
         ELSE Return(<<>>)

DefaultMinVolume == Num(1000)

\* LiquidOnly with the test of line 272 written with "and"
LiquidByBoth(value_bets, min_volume) ==
    IF value_bets.exc # "none"
    THEN value_bets
    ELSE Return(SelectSeq(value_bets.opps,
                          LAMBDA bet : /\ Get(bet, "volume", 0) > min_volume
                                       /\ Get(bet, "liquidity", 0) > min_volume))

\* lines 270-275: the list comprehension over the value bets found
LiquidOnly(value_bets, min_volume) ==
    IF value_bets.exc # "none"
    THEN value_bets
    ELSE Return(SelectSeq(value_bets.opps,
                          LAMBDA bet : \/ Get(bet, "volume", 0) > min_volume
                                       \/ Get(bet, "liquidity", 0) > min_volume))

FindHighLiquidityValue(kalshi, polymarket, platform, min_volume, edge_min) ==
    LiquidOnly(FindMispricedMarkets(kalshi, polymarket, platform, edge_min),
               min_volume)

-----------------------------------------------------------------------------
(* arbitragescanner.scan_all_arbitrage and valuescanner.scan_all_value.    *)
(* The report is the dict the method returns, without its scan_time (and   *)
(* the opportunities are without their timestamp): the clock is not        *)
(* modelled.                                                               *)

Report(results) == [exc |-> "none", report |-> results]

\* ArbitrageResults with total_opportunities summed over two of the lists
ArbitrageResultsTotalOfTwo(cross_platform, kalshi_internal, polymarket_internal) ==
    IF cross_platform.exc # "none" THEN cross_platform
    ELSE IF kalshi_internal.exc # "none" THEN kalshi_internal
    ELSE IF polymarket_internal.exc # "none" THEN polymarket_internal
    ELSE Report([cross_platform |-> cross_platform.opps,
                 kalshi_internal |-> kalshi_internal.opps,
                 polymarket_internal |-> polymarket_internal.opps,
                 summary |->
                    [total_opportunities |->
                        Len(cross_platform.opps) + Len(kalshi_internal.opps),
                     cross_platform_count |-> Len(cross_platform.opps),
                     kalshi_internal_count |-> Len(kalshi_internal.opps),
                     polymarket_internal_count |-> Len(polymarket_internal.opps)]])

\* lines 270-290: the results dict from what the three calls returned; the
\* first call that raises ends the scan
ArbitrageResults(cross_platform, kalshi_internal, polymarket_internal) ==
    IF cross_platform.exc # "none" THEN cross_platform
    ELSE IF kalshi_internal.exc # "none" THEN kalshi_internal
    ELSE IF polymarket_internal.exc # "none" THEN polymarket_internal
    ELSE Report([cross_platform |-> cross_platform.opps,
                 kalshi_internal |-> kalshi_internal.opps,
                 polymarket_internal |-> polymarket_internal.opps,
                 summary |->
                    [total_opportunities |->
                        Len(cross_platform.opps) + Len(kalshi_internal.opps)
                           + Len(polymarket_internal.opps),
                     cross_platform_count |-> Len(cross_platform.opps),
                     kalshi_internal_count |-> Len(kalshi_internal.opps),
                     polymarket_internal_count |-> Len(polymarket_internal.opps)]])

ScanAllArbitrage(kalshi, polymarket, threshold, hours) ==
    ArbitrageResults(
        FindCrossPlatformArbitrage(kalshi, polymarket, threshold, hours),
        FindInternalArbitrage(kalshi, polymarket, "kalshi", threshold, hours),
        FindInternalArbitrage(kalshi, polymarket, "polymarket", threshold, hours))

\* lines 279-295: the results dict from what the six calls returned
ValueResults(kalshi_value, polymarket_value, kalshi_extremes, polymarket_extremes, kalshi_liquid_value, polymarket_liquid_value) ==
    IF kalshi_value.exc # "none" THEN kalshi_value
    ELSE IF polymarket_value.exc # "none" THEN polymarket_value
    ELSE IF kalshi_extremes.exc # "none" THEN kalshi_extremes
    ELSE IF polymarket_extremes.exc # "none" THEN polymarket_extremes
    ELSE IF kalshi_liquid_value.exc # "none" THEN kalshi_liquid_value
    ELSE IF polymarket_liquid_value.exc # "none" THEN polymarket_liquid_value
    ELSE Report([kalshi_value |-> kalshi_value.opps,
                 polymarket_value |-> polymarket_value.opps,
                 kalshi_extremes |-> kalshi_extremes.opps,
                 polymarket_extremes |-> polymarket_extremes.opps,
                 kalshi_liquid_value |-> kalshi_liquid_value.opps,
                 polymarket_liquid_value |-> polymarket_liquid_value.opps,
                 summary |->
                    [total_value_opportunities |->
                        Len(kalshi_value.opps) + Len(polymarket_value.opps),
                     total_extreme_probabilities |->
                        Len(kalshi_extremes.opps) + Len(polymarket_extremes.opps),
                     total_liquid_value |->
                        Len(kalshi_liquid_value.opps)
                           + Len(polymarket_liquid_value.opps)]])

ScanAllValue(kalshi, polymarket, edge_min) ==
    ValueResults(
        FindMispricedMarkets(ServedAt(kalshi, 1), polymarket, "kalshi", edge_min),
        FindMispricedMarkets(kalshi, polymarket, "polymarket", edge_min),
        FindExtremeProbabilities(ServedAt(kalshi, 2), polymarket, "kalshi",
                                 DefaultExtremeThreshold),
        FindExtremeProbabilities(kalshi, polymarket, "polymarket",
                                 DefaultExtremeThreshold),
        FindHighLiquidityValue(ServedAt(kalshi, 3), polymarket, "kalshi",
                               DefaultMinVolume, edge_min),
        FindHighLiquidityValue(kalshi, polymarket, "polymarket",
                               DefaultMinVolume, edge_min))

-----------------------------------------------------------------------------
(* What a call asks of the clients for snapshots, in order: one request    *)
(* per get_markets / get_simplified_markets call the scanner makes, up to  *)
(* the first call that raises.                                             *)

\* arbitrage_scanner.py lines 25-32
CrossPlatformRequests(kalshi_markets, hours) ==
    <<KalshiRequest(ArbitrageKalshiParams(hours), hours)>>
       \o (IF kalshi_markets.exc # "none" THEN <<>> ELSE <<PolymarketRequest(hours)>>)

\* arbitrage_scanner.py lines 175-181 and 223
InternalRequests(platform, hours) ==
    IF platform = "kalshi"
    THEN <<KalshiRequest(ArbitrageKalshiParams(hours), hours)>>
    ELSE IF platform = "polymarket" THEN <<PolymarketRequest(hours)>> ELSE <<>>

\* value_scanner.py lines 26, 123, 218 and 241
ValueRequests(platform, hours) ==
    IF platform = "kalshi"
    THEN <<KalshiRequest(ValueKalshiParams, hours)>>
    ELSE IF platform = "polymarket" THEN <<PolymarketRequest(hours)>> ELSE <<>>

\* the requests of the searches of a scan, in the order of the searches, up
\* to the search that raises
RECURSIVE RequestsUntilRaise(_, _)
RequestsUntilRaise(searches, requests) ==
    IF searches = <<>>
    THEN <<>>
    ELSE Head(requests)
            \o (IF Head(searches).exc # "none"
                THEN <<>>
                ELSE RequestsUntilRaise(Tail(searches), Tail(requests)))

ScanAllArbitrageRequests(kalshi, polymarket, threshold, hours) ==
    RequestsUntilRaise(
        <<FindCrossPlatformArbitrage(kalshi, polymarket, threshold, hours),
          FindInternalArbitrage(kalshi, polymarket, "kalshi", threshold, hours),
          FindInternalArbitrage(kalshi, polymarket, "polymarket", threshold, hours)>>,
        <<CrossPlatformRequests(GetMarketsWith(kalshi, ArbitrageKalshiParams(hours)),
                                hours),
          InternalRequests("kalshi", hours),
          InternalRequests("polymarket", hours)>>)

ScanAllValueRequests(kalshi, polymarket, edge_min, hours) ==
    RequestsUntilRaise(
        <<FindMispricedMarkets(ServedAt(kalshi, 1), polymarket, "kalshi", edge_min),
          FindMispricedMarkets(kalshi, polymarket, "polymarket", edge_min),
          FindExtremeProbabilities(ServedAt(kalshi, 2), polymarket, "kalshi",
                                   DefaultExtremeThreshold),
          FindExtremeProbabilities(kalshi, polymarket, "polymarket",
                                   DefaultExtremeThreshold),
          FindHighLiquidityValue(ServedAt(kalshi, 3), polymarket, "kalshi",
                                 DefaultMinVolume, edge_min),
          FindHighLiquidityValue(kalshi, polymarket, "polymarket", DefaultMinVolume,
                                 edge_min)>>,
        [i \in 1..6 |-> ValueRequests(IF i % 2 = 1 THEN "kalshi" ELSE "polymarket",
                                      hours)])

-----------------------------------------------------------------------------
(* Inputs: the markets the venues serve and the titles they carry.          *)

MaxWords == 3

MaxMarkets == 2

\* an optional dict entry: absent, or present with one of the values
Opt(key, values) == {EmptyDict} \cup {key :> v : v \in values}

SeqsUpTo(S, n) == UNION {[1..k -> S] : k \in 0..n}

RECURSIVE Join(_, _)
Join(words, sep) ==
    IF words = <<>> THEN <<>>
    ELSE IF Len(words) = 1 THEN words[1]
    ELSE words[1] \o sep \o Join(Tail(words), sep)

wWill == <<"W", "i", "l", "l">>
wThe == <<"t", "h", "e">>
wUp == <<"u", "p">>
wFed == <<"F", "e", "d">>
wfed == <<"f", "e", "d">>
wRates == <<"r", "a", "t", "e", "s">>
wHike == <<"h", "i", "k", "e">>
wCut == <<"c", "u", "t">>

Vocabulary == {wWill, wThe, wUp, wFed, wRates, wHike}

\* kalshi titles: every word list over the vocabulary, single-spaced
KalshiWordLists == SeqsUpTo(Vocabulary, MaxWords)

\* polymarket questions: a catalogue, single- and double-spaced
PolymarketWordLists ==
    {<<>>, <<wThe, wUp>>, <<wfed>>, <<wFed, wRates>>, <<wfed, wHike>>,
     <<wHike, wRates, wfed>>, <<wFed, wRates, wCut>>, <<wWill, wThe, wFed, wRates>>}

Separators == {<<" ">>, <<" ", " ">>}

\* the two titles of scenario 4, as word lists
Scenario4KalshiWords ==
    <<wWill, wThe, wFed, <<"r", "a", "i", "s", "e">>, wRates, <<"i", "n">>,
      <<"M", "a", "r", "c", "h">>>>

Scenario4PolymarketWords ==
    <<wFed, <<"r", "a", "t", "e">>, wHike, <<"m", "a", "r", "c", "h">>,
      <<"d", "e", "c", "i", "s", "i", "o", "n">>>>

\* kalshi serves prices in whole cents
KalshiYesAsks == {Num(c) : c \in {0, 5, 10, 40, 45, 90, 95}}

KalshiNoAsks == {Num(c) : c \in {0, 5, 50, 53, 55, 60}}

KalshiBids == {Num(c) : c \in {0, 30}}

KalshiAskMarkets ==
    {("ticker" :> "K1") @@ ya @@ na :
        ya \in Opt("yes_ask", KalshiYesAsks), na \in Opt("no_ask", KalshiNoAsks)}

\* list records whose asks are fractions of 1: the records on which the
\* cross-venue check, which reads the asks as they are, finds anything
KalshiFractionMarkets ==
    {[ticker |-> "K1", yes_ask |-> ya, no_ask |-> na] :
        ya \in {Hundredths(40), Hundredths(45), One},
        na \in {Hundredths(5), Hundredths(55), One}}

KalshiFullMarkets ==
    {m @@ yb @@ nb :
        m \in KalshiAskMarkets,
        yb \in Opt("yes_bid", KalshiBids), nb \in Opt("no_bid", KalshiBids)}

\* polymarket serves prices as decimals in [0, 1]
PolymarketYesPrices == {Hundredths(c) : c \in {0, 5, 10, 40, 43, 45, 90, 95}}

PolymarketNoPrices == {Hundredths(c) : c \in {0, 5, 50, 55, 60}}

Token(outcome, price) == ("outcome" :> outcome) @@ price

PolymarketTokens ==
    {<<Token(<<"Y", "e", "s">>, yp), Token(<<"N", "o">>, np)>> :
        yp \in Opt("price", PolymarketYesPrices),
        np \in Opt("price", PolymarketNoPrices)}
    \cup {<<Token(<<"Y", "e", "s">>, "price" :> Hundredths(40))>>,
          <<Token(<<"N", "o">>, "price" :> Hundredths(55))>>}

PolymarketRawMarkets ==
    {[condition_id |-> "P1", active |-> TRUE, tokens |-> t] : t \in PolymarketTokens}
    \cup {[condition_id |-> "P1", active |-> FALSE,
           tokens |-> <<Token(<<"Y", "e", "s">>, "price" :> Hundredths(40)),
                        Token(<<"N", "o">>, "price" :> Hundredths(55))>>]}

\* markets quoted in whole hundredths whose two prices leave an edge of 0.05
\* or 0.10, the values of min_edge
PolymarketEdgeMarkets ==
    {[condition_id |-> "P1", active |-> TRUE,
      tokens |-> <<Token(<<"Y", "e", "s">>, "price" :> Hundredths(y)),
                   Token(<<"N", "o">>, "price" :> Hundredths(n))>>] :
        y \in {20, 25, 30, 40}, n \in {50, 60, 70, 75}}

Thresholds == {0, Hundredths(2), Hundredths(6), Hundredths(7)}

MinEdges == {Hundredths(5), Hundredths(10)}

\* the lists the cross-venue scan pairs: titled markets, up to MaxMarkets each
KalshiCatalogue ==
    {[ticker |-> "K1", title |-> Join(<<wWill, wThe, wFed, wHike>>, <<" ">>),
      yes_ask |-> Num(40), no_ask |-> Num(55)],
     [ticker |-> "K2", title |-> Join(<<wFed, wRates>>, <<" ">>),
      yes_ask |-> Num(45), no_ask |-> Num(40)],
     [ticker |-> "K3", title |-> Join(<<wRates, wCut>>, <<" ">>),
      yes_ask |-> Num(0), no_ask |-> Num(50)]}

PolymarketCatalogue ==
    {[condition_id |-> "P1", active |-> TRUE,
      question |-> Join(<<wfed, wHike>>, <<" ">>),
      tokens |-> <<Token(<<"Y", "e", "s">>, "price" :> Hundredths(40)),
                   Token(<<"N", "o">>, "price" :> Hundredths(55))>>],
     [condition_id |-> "P2", active |-> TRUE,
      question |-> Join(<<wfed, wRates, wCut>>, <<" ">>),
      tokens |-> <<Token(<<"Y", "e", "s">>, "price" :> Hundredths(50)),
                   Token(<<"N", "o">>, "price" :> Hundredths(50))>>],
     [condition_id |-> "P3", active |-> TRUE,
      question |-> Join(<<wfed, wRates>>, <<" ">>),
      tokens |-> <<Token(<<"Y", "e", "s">>, "price" :> Hundredths(30)),
                   Token(<<"N", "o">>, "price" :> Hundredths(0))>>]}

\* the markets a whole scan runs over: kalshi list records (cents, with bids,
\* volume and open interest) and raw polymarket markets
KalshiListings ==
    {[ticker |-> "K1", title |-> Join(<<wWill, wThe, wFed, wHike>>, <<" ">>),
      yes_ask |-> Num(40), no_ask |-> Num(55),
      yes_bid |-> Num(30), no_bid |-> Num(30), open_interest |-> Num(1000)],
     [ticker |-> "K2", title |-> Join(<<wFed, wRates>>, <<" ">>),
      yes_ask |-> Num(45), no_ask |-> Num(40),
      yes_bid |-> Num(30), volume |-> Num(1500)],
     [ticker |-> "K4", yes_ask |-> Num(5), no_ask |-> Num(80),
      yes_bid |-> Num(3), no_bid |-> Num(70),
      volume |-> Num(1000), open_interest |-> Num(2000)],
     [ticker |-> "K5", yes_ask |-> Num(10), no_ask |-> Num(70),
      yes_bid |-> Num(5), no_bid |-> Num(60), open_interest |-> Num(1000)]}

PolymarketListings ==
    {[condition_id |-> "P1", active |-> TRUE,
      tokens |-> <<Token(<<"Y", "e", "s">>, "price" :> Hundredths(95)),
                   Token(<<"N", "o">>, "price" :> Hundredths(2))>>],
     [condition_id |-> "P2", active |-> TRUE,
      question |-> Join(<<wfed, wRates>>, <<" ">>),
      tokens |-> <<Token(<<"Y", "e", "s">>, "price" :> Hundredths(45)),
                   Token(<<"N", "o">>, "price" :> Hundredths(40))>>,
      volume |-> Num(1500)],
     [condition_id |-> "P3", active |-> TRUE,
      tokens |-> <<Token(<<"Y", "e", "s">>, "price" :> Hundredths(5)),
                   Token(<<"N", "o">>, "price" :> Hundredths(70))>>,
      volume |-> Num(1000), liquidity |-> Num(1000)]}

\* the tickers whose detail request fails during a scan
DetailFailures == {{}, {"K2"}, {"K1", "K2"}}

KalshiClientsFailing(failures) ==
    {[ok |-> TRUE, markets |-> m, failing |-> f] :
        m \in SeqsUpTo(KalshiListings, MaxMarkets), f \in failures}
    \cup {[ok |-> FALSE, markets |-> <<>>, failing |-> {}]}

KalshiClients == KalshiClientsFailing({{}})

\* a venue whose listing changes after the first request of a scan
KalshiChangingClients ==
    {c \in {[ok |-> TRUE, markets |-> m, failing |-> {}, later |-> l] :
                m \in SeqsUpTo(KalshiListings, 1), l \in SeqsUpTo(KalshiListings, 1)} :
        c.markets # c.later}

\* declares_window = FALSE is polymarketclient of src/polymarket_client.py
PolymarketClients ==
    {[declares_window |-> d, ok |-> TRUE, markets |-> m] :
        d \in BOOLEAN, m \in SeqsUpTo(PolymarketListings, MaxMarkets)}
    \cup {[declares_window |-> d, ok |-> FALSE, markets |-> <<>>] : d \in BOOLEAN}

\* the client of a call that does not reach it
Unused == [ok |-> FALSE, markets |-> <<>>, failing |-> {}, declares_window |-> FALSE]

ExtremeThresholds == {Hundredths(90), Hundredths(95)}

MinVolumes == {Num(1000), Num(2000)}

\* the windows a caller sets: none, one hour, a quarter of an hour
TimeWindows == {None, Hours(Num(1)), Hours(Hundredths(25))}

\* the methods that read time_window_hours
FetchingOps ==
    {"find_internal_arbitrage", "find_mispriced_markets",
     "find_extreme_probabilities", "find_high_liquidity_value",
     "scan_all_arbitrage", "scan_all_value"}

-----------------------------------------------------------------------------
(* State.  min_profit_threshold and min_edge are the public attributes of  *)
(* the two scanners, set by the caller before a call.  call is the call    *)
(* being made, with its arguments; pc tells whether it has returned, and   *)
(* ret is what it returned.  prev is what the previous run of the same     *)
(* scan returned and the time window it ran with, when the scan is run a   *)
(* second time (<<>> before that).  time_window_hours is the attribute of  *)
(* the scanner called, and asked is the list of snapshot requests the call *)
(* has made of the clients.  session and value_time_window_hours belong   *)
(* to the dashboard (DashboardSpec below); no dashboard is open while the  *)
(* scanners are called directly.                                           *)

ArbitrageCalls ==
    [op : {"calculate_arbitrage"},
     kalshi_market : KalshiAskMarkets \cup KalshiFractionMarkets,
     raw : PolymarketRawMarkets]
    \cup [op : {"internal_kalshi"}, kalshi_market : KalshiAskMarkets]
    \cup [op : {"internal_polymarket"}, raw : PolymarketRawMarkets]
    \cup [op : {"find_cross_platform_arbitrage"},
          kalshi_markets : SeqsUpTo(KalshiCatalogue, MaxMarkets),
          raws : SeqsUpTo(PolymarketCatalogue, MaxMarkets)]
    \cup [op : {"find_internal_arbitrage"}, platform : {"kalshi"},
          kalshi : KalshiClients, polymarket : {Unused}]
    \cup [op : {"find_internal_arbitrage"}, platform : {"polymarket"},
          kalshi : {Unused}, polymarket : PolymarketClients]

ValueCalls ==
    [op : {"value_kalshi"}, kalshi_market : KalshiFullMarkets,
     details_ok : BOOLEAN]
    \cup [op : {"value_polymarket"}, raw : PolymarketRawMarkets]
    \cup [op : {"value_polymarket_float"}, raw : PolymarketEdgeMarkets]
    \cup [op : {"extreme_kalshi"}, kalshi_market : KalshiAskMarkets,
          details_ok : BOOLEAN, threshold : ExtremeThresholds]
    \cup [op : {"extreme_polymarket"}, raw : PolymarketRawMarkets,
          threshold : ExtremeThresholds]
    \cup [op : {"find_mispriced_markets"}, platform : {"kalshi"},
          kalshi : KalshiClientsFailing(DetailFailures), polymarket : {Unused}]
    \cup [op : {"find_mispriced_markets"}, platform : {"polymarket"},
          kalshi : {Unused}, polymarket : PolymarketClients]
    \cup [op : {"find_extreme_probabilities"}, platform : {"kalshi"},
          kalshi : KalshiClientsFailing(DetailFailures), polymarket : {Unused},
          threshold : ExtremeThresholds]
    \cup [op : {"find_extreme_probabilities"}, platform : {"polymarket"},
          kalshi : {Unused}, polymarket : PolymarketClients,
          threshold : ExtremeThresholds]
    \cup [op : {"find_high_liquidity_value"}, platform : {"kalshi"},
          kalshi : KalshiClients, polymarket : {Unused}, min_volume : MinVolumes]
    \cup [op : {"find_high_liquidity_value"}, platform : {"polymarket"},
          kalshi : {Unused}, polymarket : PolymarketClients,
          min_volume : MinVolumes]

\* the two orchestrators, run with the configuration of the constructors
ScanCalls ==
    [op : {"scan_all_arbitrage", "scan_all_value"},
     kalshi : KalshiClients, polymarket : PolymarketClients]
    \cup [op : {"scan_all_value"},
          kalshi : KalshiChangingClients, polymarket : PolymarketClients]

MatchCalls ==
    [op : {"markets_match"},
     words1 : KalshiWordLists \cup {Scenario4KalshiWords},
     words2 : PolymarketWordLists \cup {Scenario4PolymarketWords},
     sep : Separators]

Init ==
    /\ \/ /\ call \in ArbitrageCalls
          /\ min_profit_threshold \in Thresholds
          /\ min_edge = DefaultMinEdge
       \/ /\ call \in ValueCalls
          /\ min_profit_threshold = DefaultMinProfitThreshold
          /\ min_edge \in MinEdges
       \/ /\ call \in MatchCalls \cup ScanCalls
          /\ min_profit_threshold = DefaultMinProfitThreshold
          /\ min_edge = DefaultMinEdge
    /\ time_window_hours = None
    /\ pc = "call"
    /\ ret = Return(<<>>)
    /\ prev = <<>>
    /\ asked = <<>>
    /\ session = <<>>
    /\ value_time_window_hours = None

\* the polymarket record a call on one raw market evaluates, if the adapter
\* produces one
Simplified(raw) == SimplifiedMarkets(<<raw>>)

\* ReturnsAsking for a scanner that drops its time window when a call ends
ReturnsAskingForgetting(value, requests) ==
    /\ pc = "call"
    /\ pc' = "done"
    /\ ret' = value
    /\ asked' = requests
    /\ time_window_hours' = None
    /\ UNCHANGED <<min_profit_threshold, min_edge, call, prev, dashboard>>

\* the call returns value (or raises), having made the requests
ReturnsAsking(value, requests) ==
    /\ pc = "call"
    /\ pc' = "done"
    /\ ret' = value
    /\ asked' = requests
    /\ UNCHANGED <<min_profit_threshold, min_edge, time_window_hours, call, prev,
                   dashboard>>

Returns(value) == ReturnsAsking(value, <<>>)

CalculateArbitrageCall ==
    /\ call.op = "calculate_arbitrage"
    /\ Returns(IF Simplified(call.raw) = <<>>
               THEN Return(<<>>)
               ELSE CalculateArbitrage(call.kalshi_market, Simplified(call.raw)[1],
                                       min_profit_threshold))

InternalKalshiCall ==
    /\ call.op = "internal_kalshi"
    /\ Returns(InternalKalshi(call.kalshi_market, min_profit_threshold))

InternalPolymarketCall ==
    /\ call.op = "internal_polymarket"
    /\ Returns(IF Simplified(call.raw) = <<>>
               THEN Return(<<>>)
               ELSE InternalPolymarket(Simplified(call.raw)[1], min_profit_threshold))

ValueKalshiCall ==
    /\ call.op = "value_kalshi"
    /\ Returns(ValueKalshi(call.kalshi_market, call.details_ok, min_edge))

ValuePolymarketCall ==
    /\ call.op = "value_polymarket"
    /\ Returns(IF Simplified(call.raw) = <<>>
               THEN Return(<<>>)
               ELSE ValuePolymarket(Simplified(call.raw)[1], min_edge))

ValuePolymarketFloatCall ==
    /\ call.op = "value_polymarket_float"
    /\ Returns(IF Simplified(call.raw) = <<>>
               THEN Return(<<>>)
               ELSE ValuePolymarketFloat(Simplified(call.raw)[1], min_edge))

ExtremeKalshiCall ==
    /\ call.op = "extreme_kalshi"
    /\ Returns(ExtremeKalshi(call.kalshi_market, call.details_ok, call.threshold))

ExtremePolymarketCall ==
    /\ call.op = "extreme_polymarket"
    /\ Returns(IF Simplified(call.raw) = <<>>
               THEN Return(<<>>)
               ELSE ExtremePolymarket(Simplified(call.raw)[1], call.threshold))

\* the titles of a markets_match call, as the venues serve them
MatchKalshiMarket == [title |-> Join(call.words1, <<" ">>)]

MatchPolymarketMarket == [question |-> Join(call.words2, call.sep)]

MarketsMatchCall ==
    /\ call.op = "markets_match"
    /\ Returns([exc |-> "none",
                match |-> PairMatches(MatchKalshiMarket, MatchPolymarketMarket)])

FindCrossPlatformCall ==
    /\ call.op = "find_cross_platform_arbitrage"
    /\ Returns(CrossPlatformLoop(call.kalshi_markets, SimplifiedMarkets(call.raws),
                                 min_profit_threshold))

FindInternalArbitrageCall ==
    /\ call.op = "find_internal_arbitrage"
    /\ ReturnsAsking(FindInternalArbitrage(call.kalshi, call.polymarket,
                                           call.platform, min_profit_threshold,
                                           time_window_hours),
                     InternalRequests(call.platform, time_window_hours))

FindMispricedMarketsCall ==
    /\ call.op = "find_mispriced_markets"
    /\ ReturnsAsking(FindMispricedMarkets(call.kalshi, call.polymarket,
                                          call.platform, min_edge),
                     ValueRequests(call.platform, time_window_hours))

FindExtremeProbabilitiesCall ==
    /\ call.op = "find_extreme_probabilities"
    /\ ReturnsAsking(FindExtremeProbabilities(call.kalshi, call.polymarket,
                                              call.platform, call.threshold),
                     ValueRequests(call.platform, time_window_hours))

FindHighLiquidityValueCall ==
    /\ call.op = "find_high_liquidity_value"
    /\ ReturnsAsking(FindHighLiquidityValue(call.kalshi, call.polymarket,
                                            call.platform, call.min_volume, min_edge),
                     ValueRequests(call.platform, time_window_hours))

\* the report of a run with the kalshi-internal opportunities of the run
\* before kept in front of its own
KeptFromBefore(now, before) ==
    IF before = <<>> \/ now.exc # "none" \/ before[1].exc # "none"
    THEN now
    ELSE [now EXCEPT !.report.kalshi_internal = before[1].report.kalshi_internal \o @]

\* ScanAllArbitrageCall for a scanner that keeps what it found across runs
ScanAllArbitrageCallKeeping ==
    /\ call.op = "scan_all_arbitrage"
    /\ ReturnsAsking(KeptFromBefore(ScanAllArbitrage(call.kalshi, call.polymarket,
                                                     min_profit_threshold,
                                                     time_window_hours),
                                    prev),
                     ScanAllArbitrageRequests(call.kalshi, call.polymarket,
                                              min_profit_threshold, time_window_hours))

ScanAllArbitrageCall ==
    /\ call.op = "scan_all_arbitrage"
    /\ ReturnsAsking(ScanAllArbitrage(call.kalshi, call.polymarket,
                                      min_profit_threshold, time_window_hours),
                     ScanAllArbitrageRequests(call.kalshi, call.polymarket,
                                              min_profit_threshold, time_window_hours))

ScanAllValueCall ==
    /\ call.op = "scan_all_value"
    /\ ReturnsAsking(ScanAllValue(call.kalshi, call.polymarket, min_edge),
                     ScanAllValueRequests(call.kalshi, call.polymarket, min_edge,
                                          time_window_hours))

\* main.py, run_continuous_scan: the scan is run again, the venues serving
\* what they served to the run before
ScanAgain ==
    /\ pc = "done"
    /\ call.op \in {"scan_all_arbitrage", "scan_all_value"}
    /\ prev = <<>>
    /\ pc' = "call"
    /\ prev' = <<ret, time_window_hours>>
    /\ UNCHANGED <<min_profit_threshold, min_edge, time_window_hours, call, ret, asked,
                   dashboard>>

\* arbitragescanner.set_time_window / valuescanner.set_time_window, called
\* on the scanner before one of its methods that fetch
SetTimeWindow ==
    /\ pc = "call"
    /\ call.op \in FetchingOps
    /\ \E hours \in TimeWindows :
          /\ hours # time_window_hours
          /\ time_window_hours' = hours
    /\ UNCHANGED <<min_profit_threshold, min_edge, call, pc, ret, prev, asked,
                   dashboard>>

Next ==
    \/ CalculateArbitrageCall
    \/ InternalKalshiCall
    \/ InternalPolymarketCall
    \/ ValueKalshiCall
    \/ ValuePolymarketCall
    \/ ValuePolymarketFloatCall
    \/ ExtremeKalshiCall
    \/ ExtremePolymarketCall
    \/ MarketsMatchCall
    \/ FindCrossPlatformCall
    \/ FindInternalArbitrageCall
    \/ FindMispricedMarketsCall
    \/ FindExtremeProbabilitiesCall
    \/ FindHighLiquidityValueCall
    \/ ScanAllArbitrageCall
    \/ ScanAllValueCall
    \/ ScanAgain
    \/ SetTimeWindow

Spec == Init /\ [][Next]_vars

-----------------------------------------------------------------------------
(* The dashboard (streamlit_app.py).  Every browser session runs main()    *)
(* from the top, in a thread of its own, each time its user touches a      *)
(* widget or the script calls st.rerun().  The clients and the two         *)
(* scanners are made once by init_clients, under st.cache_resource, and    *)
(* are the same objects in every session: time_window_hours is the         *)
(* attribute of the shared arbitragescanner, value_time_window_hours that  *)
(* of the shared valuescanner, and call holds the shared clients.          *)
(*                                                                         *)
(* session[s] is what belongs to session s: the widgets time_window (the   *)
(* select box, as hours) and auto_refresh, the entries trigger_scan and    *)
(* last_scan_time of st.session_state, and at, the place its script run    *)
(* has reached ("idle" when no run is in progress).  clicked_in remembers  *)
(* whether auto-refresh was on when trigger_scan was set, and scan         *)
(* describes the scan of the present run: the branch that started it, the  *)
(* click that caused it, the window selected in the session and, once      *)
(* scan_all_arbitrage has run, the window it ran with.                     *)

Sessions == {1, 2}

\* "all markets" and "1 hour" of the select box (lines 161-177)
TimeWindowOptions == {None, Hours(Num(1))}

\* the shared clients: venues with nothing listed, the polymarket client of
\* src/ (declares_window = FALSE) or one that takes the window
DashboardClients ==
    {[op |-> "run_scan_display",
      kalshi |-> [ok |-> TRUE, markets |-> <<>>, failing |-> {}],
      polymarket |-> [declares_window |-> d, ok |-> TRUE, markets |-> <<>>]] :
        d \in BOOLEAN}

NoScan == [mode |-> "none", cause |-> "none", selected |-> None,
           ran |-> FALSE, window |-> None]

\* a session whose page has just been opened: the widgets at their defaults
\* and the first run of the script past the side bar
OpenedSession ==
    [time_window |-> None, auto_refresh |-> FALSE, trigger_scan |-> FALSE,
     last_scan_time |-> "none", at |-> "set_arb", clicked_in |-> "none",
     scan |-> NoScan]

DashboardInit ==
    /\ call \in DashboardClients
    /\ min_profit_threshold = DefaultMinProfitThreshold
    /\ min_edge = DefaultMinEdge
    /\ time_window_hours = None
    /\ value_time_window_hours = None
    /\ pc = "call"
    /\ ret = Return(<<>>)
    /\ prev = <<>>
    /\ asked = <<>>
    /\ session = [s \in Sessions |-> OpenedSession]

\* what no step of the dashboard changes
DashboardFixed == <<min_profit_threshold, min_edge, call, pc, prev>>

\* the user can touch a widget when no run is in progress or the run sleeps
Interactive(s) == session[s].at \in {"idle", "sleep"}

\* a new run of the script starts in session s, whose state is now state
Rerun(s, state) ==
    session' = [session EXCEPT ![s] = [state EXCEPT !.at = "set_arb", !.scan = NoScan]]

\* the select box of lines 161-177
SelectTimeWindow(s) ==
    /\ Interactive(s)
    /\ \E option \in TimeWindowOptions :
          /\ option # session[s].time_window
          /\ Rerun(s, [session[s] EXCEPT !.time_window = option])
    /\ UNCHANGED <<DashboardFixed, time_window_hours, value_time_window_hours, ret, asked>>

\* the check box of line 180
ToggleAutoRefresh(s) ==
    /\ Interactive(s)
    /\ Rerun(s, [session[s] EXCEPT !.auto_refresh = ~@])
    /\ UNCHANGED <<DashboardFixed, time_window_hours, value_time_window_hours, ret, asked>>

\* the button of lines 189-190: the run it starts sets trigger_scan
ClickRunScanNow(s) ==
    /\ Interactive(s)
    /\ Rerun(s, [session[s] EXCEPT
                    !.trigger_scan = TRUE,
                    !.clicked_in = IF session[s].auto_refresh THEN "auto" ELSE "manual"])
    /\ UNCHANGED <<DashboardFixed, time_window_hours, value_time_window_hours, ret, asked>>

\* st.rerun() after time.sleep (lines 225-226 and 231-232)
SleepOver(s) ==
    /\ session[s].at = "sleep"
    /\ Rerun(s, session[s])
    /\ UNCHANGED <<DashboardFixed, time_window_hours, value_time_window_hours, ret, asked>>

\* line 204
SetArbitrageWindow(s) ==
    /\ session[s].at = "set_arb"
    /\ time_window_hours' = session[s].time_window
    /\ session' = [session EXCEPT ![s].at = "set_value"]
    /\ UNCHANGED <<DashboardFixed, value_time_window_hours, ret, asked>>

\* line 205
SetValueWindow(s) ==
    /\ session[s].at = "set_value"
    /\ value_time_window_hours' = session[s].time_window
    /\ session' = [session EXCEPT ![s].at = "branch"]
    /\ UNCHANGED <<DashboardFixed, time_window_hours, ret, asked>>

\* lines 212-222: auto-refresh is on and a scan is due
AutoRefreshScan(s) ==
    /\ session[s].at = "branch"
    /\ session[s].auto_refresh
    /\ session' = [session EXCEPT
                      ![s].last_scan_time = "set",
                      ![s].at = "scan_arb",
                      ![s].scan = [NoScan EXCEPT !.mode = "auto", !.cause = "timer",
                                                 !.selected = session[s].time_window]]
    /\ UNCHANGED <<DashboardFixed, time_window_hours, value_time_window_hours, ret, asked>>

\* lines 227-232: auto-refresh is on and the interval has not passed
AutoRefreshCountdown(s) ==
    /\ session[s].at = "branch"
    /\ session[s].auto_refresh
    /\ session[s].last_scan_time = "set"
    /\ session' = [session EXCEPT ![s].at = "sleep"]
    /\ UNCHANGED <<DashboardFixed, time_window_hours, value_time_window_hours, ret, asked>>

\* lines 233-238: auto-refresh is off and trigger_scan is set
ManualScan(s) ==
    /\ session[s].at = "branch"
    /\ ~session[s].auto_refresh
    /\ session[s].trigger_scan
    /\ session' = [session EXCEPT
                      ![s].last_scan_time = "none",
                      ![s].trigger_scan = FALSE,
                      ![s].clicked_in = "none",
                      ![s].at = "scan_arb",
                      ![s].scan = [NoScan EXCEPT !.mode = "manual",
                                                 !.cause = session[s].clicked_in,
                                                 !.selected = session[s].time_window]]
    /\ UNCHANGED <<DashboardFixed, time_window_hours, value_time_window_hours, ret, asked>>

\* lines 233-239: auto-refresh is off and trigger_scan is not set
ManualWait(s) ==
    /\ session[s].at = "branch"
    /\ ~session[s].auto_refresh
    /\ ~session[s].trigger_scan
    /\ session' = [session EXCEPT ![s].last_scan_time = "none", ![s].at = "idle"]
    /\ UNCHANGED <<DashboardFixed, time_window_hours, value_time_window_hours, ret, asked>>

\* where the run goes after a scan that returned or raised: an exception
\* ends the run
AfterScan(report, next) == IF report.exc = "none" THEN next ELSE "idle"

\* run_scan_display, line 255: arb_scanner.scan_all_arbitrage()
RunArbitrageScan(s) ==
    /\ session[s].at = "scan_arb"
    /\ ret' = ScanAllArbitrage(call.kalshi, call.polymarket, min_profit_threshold,
                               time_window_hours)
    /\ asked' = ScanAllArbitrageRequests(call.kalshi, call.polymarket,
                                         min_profit_threshold, time_window_hours)
    /\ session' = [session EXCEPT
                      ![s].scan.ran = TRUE,
                      ![s].scan.window = time_window_hours,
                      ![s].at = AfterScan(ret', "scan_value")]
    /\ UNCHANGED <<DashboardFixed, time_window_hours, value_time_window_hours>>

\* run_scan_display, line 264: value_scanner.scan_all_value(); then the run
\* ends, or sleeps when it came from the auto-refresh branch (line 225)
RunValueScan(s) ==
    /\ session[s].at = "scan_value"
    /\ ret' = ScanAllValue(call.kalshi, call.polymarket, min_edge)
    /\ asked' = ScanAllValueRequests(call.kalshi, call.polymarket, min_edge,
                                     value_time_window_hours)
    /\ session' = [session EXCEPT
                      ![s].at = AfterScan(ret', IF session[s].scan.mode = "auto"
                                                THEN "sleep" ELSE "idle")]
    /\ UNCHANGED <<DashboardFixed, time_window_hours, value_time_window_hours>>

DashboardNext ==
    \E s \in Sessions :
        \/ SelectTimeWindow(s)
        \/ ToggleAutoRefresh(s)
        \/ ClickRunScanNow(s)
        \/ SleepOver(s)
        \/ SetArbitrageWindow(s)
        \/ SetValueWindow(s)
        \/ AutoRefreshScan(s)
        \/ AutoRefreshCountdown(s)
        \/ ManualScan(s)
        \/ ManualWait(s)
        \/ RunArbitrageScan(s)
        \/ RunValueScan(s)

DashboardSpec == DashboardInit /\ [][DashboardNext]_vars

-----------------------------------------------------------------------------
(* The quoted prices of the markets of a call, as fractions of 1.          *)

\* kalshi quotes in cents: the price of a side is its ask over 100
KalshiQuote(market, key) == Get(market, key, 0) \div 100

\* polymarket quotes in decimals: the price of a side is the price of the
\* first token of that outcome, 0 when the token carries none
PolymarketQuote(raw, outcome) ==
    LET of == {i \in 1..Len(raw.tokens) : Lower(raw.tokens[i].outcome) = outcome}
        first == CHOOSE i \in of : \A j \in of : i <= j
    IN  IF of = {} THEN 0 ELSE Get(raw.tokens[first], "price", 0)

KalshiUnquoted(market) ==
    KalshiQuote(market, "yes_ask") = 0 \/ KalshiQuote(market, "no_ask") = 0

PolymarketUnquoted(raw) ==
    PolymarketQuote(raw, <<"y", "e", "s">>) = 0 \/ PolymarketQuote(raw, <<"n", "o">>) = 0

Done(op) == pc = "done" /\ call.op = op

-----------------------------------------------------------------------------
(* C1.  For every market in which the YES price or the NO price is absent  *)
(* or zero, the cross-venue check, the internal arbitrage check and the    *)
(* value check on either venue produce no opportunity and raise no         *)
(* exception.                                                              *)

C1_UnquotedYieldsNothing ==
    /\ Done("calculate_arbitrage")
          /\ (KalshiUnquoted(call.kalshi_market) \/ PolymarketUnquoted(call.raw))
       => ret = Return(<<>>)
    /\ Done("internal_kalshi") /\ KalshiUnquoted(call.kalshi_market)
       => ret = Return(<<>>)
    /\ Done("internal_polymarket") /\ PolymarketUnquoted(call.raw)
       => ret = Return(<<>>)
    /\ Done("value_kalshi")
          /\ (KalshiUnquoted(call.kalshi_market) \/ ~call.details_ok)
       => ret = Return(<<>>)
    /\ Done("value_polymarket") /\ PolymarketUnquoted(call.raw)
       => ret = Return(<<>>)

\* a kalshi market with no YES ask and a NO ask of 0.50 has been through the
\* internal check, where the NO ask alone costs less than 1
C1_Witness ==
    /\ Done("internal_kalshi")
    /\ "yes_ask" \notin DOMAIN call.kalshi_market
    /\ KalshiQuote(call.kalshi_market, "no_ask") = Hundredths(50)
    /\ ret = Return(<<>>)

-----------------------------------------------------------------------------
(* C2.  A market with yes_price = 0 (unquoted, including a kalshi market   *)
(* whose detail fetch failed and defaulted to 0) is excluded from all      *)
(* evaluators, including the extreme-probability check: it is never        *)
(* emitted as an extreme probability with confidence high_no.              *)

KalshiYesUnquoted ==
    \/ KalshiQuote(call.kalshi_market, "yes_ask") = 0
    \/ (call.op \in {"value_kalshi", "extreme_kalshi"} /\ ~call.details_ok)

PolymarketYesUnquoted == PolymarketQuote(call.raw, <<"y", "e", "s">>) = 0

C2_UnquotedNeverExtreme ==
    /\ pc = "done"
          /\ call.op \in {"internal_kalshi", "value_kalshi", "extreme_kalshi"}
          /\ KalshiYesUnquoted
       => ret.opps = <<>>
    /\ pc = "done"
          /\ call.op \in {"internal_polymarket", "value_polymarket",
                          "extreme_polymarket"}
          /\ PolymarketYesUnquoted
       => ret.opps = <<>>
    /\ Done("calculate_arbitrage") /\ (KalshiYesUnquoted \/ PolymarketYesUnquoted)
       => ret.opps = <<>>

-----------------------------------------------------------------------------
(* C3.  For every market with both prices quoted, the internal arbitrage   *)
(* check emits an opportunity iff yes_price + no_price < 1 and             *)
(* profit_pct = (gross_profit - fees) / total_cost * 100 is                *)
(* >= min_profit_threshold * 100 (equality included); and in every emitted *)
(* opportunity with fees > 0, net_profit < gross_profit strictly.          *)

\* the fee of the venue on a gross profit: 7% of it on kalshi, 0.02 on polymarket
VenueFee(venue, gross_profit) ==
    IF venue = "kalshi" THEN (gross_profit * 7) \div 100 ELSE Hundredths(2)

\* yes + no < 1 and (1 - total - fees) / total >= threshold
InternalQualifies(venue, yes_price, no_price, threshold) ==
    LET total == yes_price + no_price
        gross == One - total
    IN  /\ total < One
        /\ (gross - VenueFee(venue, gross)) * One >= threshold * total

InternalEmitsIff(venue, yes_price, no_price) ==
    /\ ret.exc = "none"
    /\ Len(ret.opps) = (IF InternalQualifies(venue, yes_price, no_price,
                                             min_profit_threshold) THEN 1 ELSE 0)
    /\ \A i \in 1..Len(ret.opps) :
          ret.opps[i].fees.total_fees > 0
             => ret.opps[i].net_profit < ret.opps[i].gross_profit

-----------------------------------------------------------------------------
(* The cross-venue strategies on the quoted prices of a pair.              *)

\* total < 1 and (1 - total - 7% of (1 - total) - 0.02) / total >= threshold
CrossQualifies(total, threshold) ==
    LET gross == One - total
        fees == VenueFee("kalshi", gross) + VenueFee("polymarket", gross)
    IN  total < One /\ (gross - fees) * One >= threshold * total

Strategy1Total(kalshi_market, raw) ==
    KalshiQuote(kalshi_market, "yes_ask") + PolymarketQuote(raw, <<"n", "o">>)

Strategy2Total(kalshi_market, raw) ==
    PolymarketQuote(raw, <<"y", "e", "s">>) + KalshiQuote(kalshi_market, "no_ask")

PairQuoted(kalshi_market, raw) ==
    ~KalshiUnquoted(kalshi_market) /\ ~PolymarketUnquoted(raw) /\ raw.active

-----------------------------------------------------------------------------
(* C4.  The cross-venue check considers both strategies independently:     *)
(* whenever strategy 2 (buy YES on polymarket, NO on kalshi) has           *)
(* total_cost < 1 and profit_pct >= threshold, the strategy-2 opportunity  *)
(* is found by the check, whether or not strategy 1 also qualifies.        *)

C4_Strategy2AlwaysFound ==
    Done("calculate_arbitrage")
       /\ PairQuoted(call.kalshi_market, call.raw)
       /\ CrossQualifies(Strategy2Total(call.kalshi_market, call.raw),
                         min_profit_threshold)
    => \E i \in 1..Len(ret.opps) :
          /\ ret.opps[i].strategy = "buy yes on polymarket, no on kalshi"
          /\ ret.opps[i].total_cost = Strategy2Total(call.kalshi_market, call.raw)

-----------------------------------------------------------------------------
(* C5.  For every matched pair with all four prices quoted, the cross-     *)
(* venue scan emits an opportunity for the pair iff at least one strategy  *)
(* has total_cost < 1 and profit_pct >= min_profit_threshold * 100; the    *)
(* scan applies this check to every matched pair and emits nothing for     *)
(* pairs where no strategy qualifies.                                      *)

PairQualifies(kalshi_market, raw) ==
    /\ PairQuoted(kalshi_market, raw)
    /\ \/ CrossQualifies(Strategy1Total(kalshi_market, raw), min_profit_threshold)
       \/ CrossQualifies(Strategy2Total(kalshi_market, raw), min_profit_threshold)

\* the pairs of the two lists of a scan that match and qualify
QualifyingPairs ==
    {ij \in (1..Len(call.kalshi_markets)) \X (1..Len(call.raws)) :
        /\ PairMatches(call.kalshi_markets[ij[1]], call.raws[ij[2]])
        /\ PairQualifies(call.kalshi_markets[ij[1]], call.raws[ij[2]])}

C5_CrossEmitsIffQualifies ==
    /\ Done("calculate_arbitrage") /\ PairQuoted(call.kalshi_market, call.raw)
       => (ret.opps # <<>> <=> PairQualifies(call.kalshi_market, call.raw))
    /\ Done("find_cross_platform_arbitrage")
       => Len(ret.opps) = Cardinality(QualifyingPairs)

-----------------------------------------------------------------------------
(* C6.  In every emitted internal arbitrage opportunity,                   *)
(* gross_profit = 1 - total_cost and net_profit = gross_profit - fees,     *)
(* where fees = 7% of gross_profit (and no flat fee) on kalshi and         *)
(* fees = flat 0.02 (and no percentage fee) on polymarket;                 *)
(* profit_pct = net_profit / total_cost * 100.                             *)

InternalEconomics(o, venue, yes_price, no_price) ==
    /\ o.total_cost = yes_price + no_price
    /\ o.gross_profit = One - o.total_cost
    /\ o.net_profit = o.gross_profit - o.fees.total_fees
    /\ o.fees.total_fees = o.fees.platform_fee + o.fees.gas_fee
    /\ IF venue = "kalshi"
       THEN o.fees.platform_fee * 100 = o.gross_profit * 7 /\ o.fees.gas_fee = 0
       ELSE o.fees.platform_fee = 0 /\ o.fees.gas_fee = Hundredths(2)
    /\ o.profit_percentage.num * o.total_cost = o.net_profit * o.profit_percentage.den

C6_InternalFeeModel ==
    /\ Done("internal_kalshi")
       => \A i \in 1..Len(ret.opps) :
             InternalEconomics(ret.opps[i], "kalshi",
                               KalshiQuote(call.kalshi_market, "yes_ask"),
                               KalshiQuote(call.kalshi_market, "no_ask"))
    /\ Done("internal_polymarket")
       => \A i \in 1..Len(ret.opps) :
             InternalEconomics(ret.opps[i], "polymarket",
                               PolymarketQuote(call.raw, <<"y", "e", "s">>),
                               PolymarketQuote(call.raw, <<"n", "o">>))

\* a polymarket market at 0.40 + 0.55 has been emitted with the flat fee
C6_Witness ==
    /\ Done("internal_polymarket")
    /\ PolymarketQuote(call.raw, <<"y", "e", "s">>) = Hundredths(40)
    /\ PolymarketQuote(call.raw, <<"n", "o">>) = Hundredths(55)
    /\ Len(ret.opps) = 1
    /\ ret.opps[1].fees.gas_fee = Hundredths(2)
    /\ ret.opps[1].net_profit = Hundredths(3)

-----------------------------------------------------------------------------
(* C7.  Scenario 1: a kalshi market with yes_price 0.40 and no_price 0.55  *)
(* yields an internal arbitrage with total_cost 0.95, gross_profit 0.05,   *)
(* fee 0.0035, net_profit 0.0465 and profit_pct about 4.89; it is emitted  *)
(* when min_profit_threshold is 0.02 and not emitted when it is 0.06.      *)

Scenario1Market ==
    /\ Done("internal_kalshi")
    /\ KalshiQuote(call.kalshi_market, "yes_ask") = Hundredths(40)
    /\ KalshiQuote(call.kalshi_market, "no_ask") = Hundredths(55)

C7_Scenario1 ==
    /\ Scenario1Market /\ min_profit_threshold = Hundredths(2)
       => /\ Len(ret.opps) = 1
          /\ ret.opps[1].total_cost = Hundredths(95)
          /\ ret.opps[1].gross_profit = Hundredths(5)
          /\ ret.opps[1].fees.total_fees = 35
          /\ ret.opps[1].net_profit = 465
          /\ 489 * ret.opps[1].profit_percentage.den
                <= ret.opps[1].profit_percentage.num * 100 * 100
          /\ ret.opps[1].profit_percentage.num * 100 * 100
                < 490 * ret.opps[1].profit_percentage.den
    /\ Scenario1Market /\ min_profit_threshold = Hundredths(6)
       => ret = Return(<<>>)

C7_Witness ==
    /\ Scenario1Market
    /\ min_profit_threshold = Hundredths(2)
    /\ Len(ret.opps) = 1

-----------------------------------------------------------------------------
(* C8.  Scenario 2: for a matched pair with kalshi yes_price 0.40 and      *)
(* polymarket no_price 0.55, the cross-venue check computes strategy 1     *)
(* with total_cost 0.95, fees = 7% of gross profit plus flat 0.02,         *)
(* net_profit 0.0265 and profit_pct about 2.79, and emits it at the        *)
(* default 2% threshold.                                                   *)

C8_Scenario2 ==
    Done("calculate_arbitrage")
       /\ PairQuoted(call.kalshi_market, call.raw)
       /\ KalshiQuote(call.kalshi_market, "yes_ask") = Hundredths(40)
       /\ PolymarketQuote(call.raw, <<"n", "o">>) = Hundredths(55)
       /\ min_profit_threshold = DefaultMinProfitThreshold
    => /\ Len(ret.opps) = 1
       /\ ret.opps[1].strategy = "buy yes on kalshi, no on polymarket"
       /\ ret.opps[1].total_cost = Hundredths(95)
       /\ ret.opps[1].fees.total_fees = 35 + Hundredths(2)
       /\ ret.opps[1].net_profit = 265
       /\ 279 * ret.opps[1].profit_percentage.den
             <= ret.opps[1].profit_percentage.num * 100 * 100
       /\ ret.opps[1].profit_percentage.num * 100 * 100
             < 280 * ret.opps[1].profit_percentage.den

-----------------------------------------------------------------------------
(* C9.  The matcher pairs two titles iff, after lower-casing, whitespace   *)
(* tokenisation and removal of the stop words {will, the, be, a, an, in,   *)
(* on, at, to, for} and of tokens of length <= 2, both token sets are      *)
(* non-empty and |set_a \cap set_b| / min(|set_a|, |set_b|) is strictly    *)
(* greater than 0.5; an overlap of exactly 0.5 or an empty set gives no    *)
(* match.                                                                  *)

StopWords ==
    {<<"w", "i", "l", "l">>, <<"t", "h", "e">>, <<"b", "e">>, <<"a">>,
     <<"a", "n">>, <<"i", "n">>, <<"o", "n">>, <<"a", "t">>, <<"t", "o">>,
     <<"f", "o", "r">>}

\* the token set of a title, from the words the title was written with
TokenSet(words) ==
    {Lower(words[i]) : i \in {j \in 1..Len(words) :
                                 Lower(words[j]) \notin StopWords /\ Len(words[j]) > 2}}

SetA == TokenSet(call.words1)

SetB == TokenSet(call.words2)

C9_MatchIffOverlapAboveHalf ==
    Done("markets_match")
    => (ret.match <=> /\ SetA # {}
                      /\ SetB # {}
                      /\ 2 * Cardinality(SetA \cap SetB)
                            > Min(Cardinality(SetA), Cardinality(SetB)))

\* two titles sharing exactly half of the smaller token set have been compared
C9_Witness ==
    /\ Done("markets_match")
    /\ SetA # {}
    /\ SetB # {}
    /\ 2 * Cardinality(SetA \cap SetB) = Min(Cardinality(SetA), Cardinality(SetB))
    /\ ~ret.match

-----------------------------------------------------------------------------
(* C10.  The matcher's decision is symmetric: for all titles t1, t2, the   *)
(* match decision for (t1, t2) equals the decision for (t2, t1).           *)

C10_MatchSymmetric ==
    Done("markets_match")
    => ret.match = MarketsMatch(Lower(MatchPolymarketMarket.question),
                                Lower(MatchKalshiMarket.title))

\* a one-token title has matched a title with more tokens
C10_Witness ==
    /\ Done("markets_match")
    /\ Cardinality(SetA) < Cardinality(SetB)
    /\ SetA \cap SetB # {}
    /\ ret.match

-----------------------------------------------------------------------------
(* C11.  Scenario 4: the titles "Will the Fed raise rates in March" and    *)
(* "Fed rate hike march decision".                                         *)

Scenario4Titles ==
    /\ Done("markets_match")
    /\ call.words1 = Scenario4KalshiWords
    /\ call.words2 = Scenario4PolymarketWords

\* C11 as stated: the two titles are matched by the matcher, their token
\* overlap after stop-word removal exceeding 0.5 of the smaller set
C11_Scenario4Matches ==
    Scenario4Titles
    => /\ ret.match
       /\ 2 * Cardinality(SetA \cap SetB) > Min(Cardinality(SetA), Cardinality(SetB))

\* C11 as amended: the two titles are not matched; after stop-word removal
\* their token sets have 4 and 5 tokens and share 2, an overlap of exactly 0.5
\* of the smaller set, which does not exceed 0.5
C11_Scenario4OverlapIsHalf ==
    Scenario4Titles
    => /\ ~ret.match
       /\ Cardinality(SetA) = 4
       /\ Cardinality(SetB) = 5
       /\ Cardinality(SetA \cap SetB) = 2

\* the two titles have been compared, single-spaced
C11_Witness ==
    /\ Scenario4Titles
    /\ call.sep = <<" ">>
    /\ ~ret.match

-----------------------------------------------------------------------------
(* The bids of the markets of a value call.                                *)

\* kalshi serves the bid of a side in cents under "yes_bid" / "no_bid"
KalshiBid(market, side) == Get(market, side \o "_bid", 0) \div 100

\* polymarket serves a token per outcome, with a price and, when it has one,
\* a bid
PolymarketBid(raw, outcome) ==
    LET of == {i \in 1..Len(raw.tokens) : Lower(raw.tokens[i].outcome) = outcome}
        first == CHOOSE i \in of : \A j \in of : i <= j
    IN  IF of = {} THEN 0 ELSE Get(raw.tokens[first], "bid", 0)

SideOutcome(side) == IF side = "yes" THEN <<"y", "e", "s">> ELSE <<"n", "o">>

-----------------------------------------------------------------------------
(* C12.  On both venues, a value bet for a side is emitted only if a       *)
(* nonzero (tradable) bid exists on that side: a market whose bid on a     *)
(* side is zero or absent never yields a value bet for that side, even     *)
(* when that side's edge exceeds min_edge.                                 *)

C12_ValueBetNeedsBid ==
    /\ Done("value_kalshi")
       => \A i \in 1..Len(ret.opps) :
             KalshiBid(call.kalshi_market, ret.opps[i].side) > 0
    /\ Done("value_polymarket")
       => \A i \in 1..Len(ret.opps) :
             PolymarketBid(call.raw, SideOutcome(ret.opps[i].side)) > 0

-----------------------------------------------------------------------------
(* C13.  Every emitted value bet for a side has                            *)
(* fair_value = 1 - (other side's price), edge = fair_value - (this side's *)
(* price) and edge strictly greater than min_edge; a side whose edge       *)
(* equals min_edge exactly is not emitted.                                 *)

OtherSide(side) == IF side = "yes" THEN "no" ELSE "yes"

\* the value bet o, emitted for a market quoted at this_price on o's side and
\* at other_price on the other side
ValueBetEdge(o, this_price, other_price) ==
    /\ o.price = this_price
    /\ o.fair_value = One - other_price
    /\ o.edge = o.fair_value - this_price
    /\ o.edge > min_edge

-----------------------------------------------------------------------------
(* C14.  In every emitted value bet, net_expected_profit = edge - 7% of    *)
(* edge on kalshi and edge - 0.02 on polymarket, and                       *)
(* roi_pct = net_expected_profit / entry_price * 100; computing roi never  *)
(* divides by zero on either venue and side (an entry price of 0 gives     *)
(* roi 0 or no bet, never an error).                                       *)

ValueBetEconomics(o, venue) ==
    /\ o.expected_profit = o.edge
    /\ o.net_expected_profit = o.edge - o.fees.total_fees
    /\ o.fees.total_fees = o.fees.platform_fee + o.fees.gas_fee
    /\ IF venue = "kalshi"
       THEN o.fees.platform_fee * 100 = o.edge * 7 /\ o.fees.gas_fee = 0
       ELSE o.fees.platform_fee = 0 /\ o.fees.gas_fee = Hundredths(2)
    /\ o.trade_details.entry_price = o.price
    /\ IF o.price = 0
       THEN o.roi_percentage.num = 0
       ELSE o.roi_percentage.num * o.price
               = o.net_expected_profit * o.roi_percentage.den

C14_ValueFeesAndRoi ==
    /\ Done("value_kalshi")
       => /\ ret.exc = "none"
          /\ \A i \in 1..Len(ret.opps) : ValueBetEconomics(ret.opps[i], "kalshi")
    /\ Done("value_polymarket")
       => /\ ret.exc = "none"
          /\ \A i \in 1..Len(ret.opps) : ValueBetEconomics(ret.opps[i], "polymarket")
    /\ pc = "done"
          /\ call.op \in {"find_mispriced_markets", "find_high_liquidity_value",
                          "scan_all_value"}
       => ret.exc # "ZeroDivisionError"

\* a kalshi bet of edge 0.10 at the price 0.40 has been emitted with the fee
\* 0.007, the net profit 0.093 and the roi 0.093 / 0.40
C14_Witness ==
    /\ Done("value_kalshi")
    /\ Len(ret.opps) = 2
    /\ ret.opps[1].price = Hundredths(40)
    /\ ret.opps[1].edge = Hundredths(10)
    /\ ret.opps[1].fees.platform_fee = 70
    /\ ret.opps[1].net_expected_profit = 930
    /\ ret.opps[1].roi_percentage = Pct(930, Hundredths(40))

-----------------------------------------------------------------------------
(* C15.  The extreme-probability check flags a market iff                  *)
(* yes_price > threshold (confidence high_yes) or yes_price < 1 - threshold*)
(* (confidence high_no); a yes_price exactly equal to threshold or to      *)
(* 1 - threshold is not flagged, and a market with yes_price 0.95 at       *)
(* threshold 0.9 is flagged high_yes.                                      *)

\* the yes_price the check reads for the market of an extreme call: the
\* detail record's ask on kalshi (0 when the detail request failed), the Yes
\* token's price on polymarket
ExtremeYesPrice ==
    IF call.op = "extreme_kalshi"
    THEN IF call.details_ok THEN KalshiQuote(call.kalshi_market, "yes_ask") ELSE 0
    ELSE PolymarketQuote(call.raw, <<"y", "e", "s">>)

\* a polymarket market is in the snapshot when it is active and has a token
\* for each outcome
PolymarketListed(raw) ==
    /\ raw.active
    /\ \E i \in 1..Len(raw.tokens) : Lower(raw.tokens[i].outcome) = <<"y", "e", "s">>
    /\ \E i \in 1..Len(raw.tokens) : Lower(raw.tokens[i].outcome) = <<"n", "o">>

ExtremeFlaggedIff(y, t) ==
    /\ ret.exc = "none"
    /\ Len(ret.opps) = (IF y > t \/ y < One - t THEN 1 ELSE 0)
    /\ \A i \in 1..Len(ret.opps) :
          /\ ret.opps[i].yes_price = y
          /\ ret.opps[i].confidence = (IF y > t THEN "high_yes" ELSE "high_no")
    /\ (y = t \/ y = One - t) => ret.opps = <<>>
    /\ (y = Hundredths(95) /\ t = Hundredths(90))
       => Len(ret.opps) = 1 /\ ret.opps[1].confidence = "high_yes"

-----------------------------------------------------------------------------
(* C16.  The liquidity filter keeps a value bet iff its volume > min_volume*)
(* OR its liquidity > min_volume (strict comparisons, absent values        *)
(* treated as 0), keeps the kept bets in their original order, and drops   *)
(* every other bet.                                                        *)

SufficientlyLiquid(bet, min_volume) ==
    \/ "volume" \in DOMAIN bet /\ bet.volume > min_volume
    \/ "liquidity" \in DOMAIN bet /\ bet.liquidity > min_volume

\* kept is bets without the bets that are not liquid, in the order of bets
RECURSIVE KeptInOrder(_, _, _)
KeptInOrder(kept, bets, min_volume) ==
    IF bets = <<>>
    THEN kept = <<>>
    ELSE IF SufficientlyLiquid(Head(bets), min_volume)
         THEN /\ kept # <<>>
              /\ Head(kept) = Head(bets)
              /\ KeptInOrder(Tail(kept), Tail(bets), min_volume)
         ELSE KeptInOrder(kept, Tail(bets), min_volume)

LiquidityFiltered(value_bets, min_volume) ==
    IF value_bets.exc # "none"
    THEN ret.exc = value_bets.exc
    ELSE /\ ret.exc = "none"
         /\ KeptInOrder(ret.opps, value_bets.opps, min_volume)

C16_LiquidityFilter ==
    Done("find_high_liquidity_value")
    => LiquidityFiltered(FindMispricedMarkets(call.kalshi, call.polymarket,
                                              call.platform, min_edge),
                         call.min_volume)

\* a bet short of volume is kept for its liquidity, and a bet whose largest
\* figure equals min_volume is dropped
LiquidityDecides(value_bets, min_volume) ==
    /\ value_bets.exc = "none"
    /\ \E i \in 1..Len(ret.opps) :
          ret.opps[i].volume <= min_volume /\ ret.opps[i].liquidity > min_volume
    /\ \E i \in 1..Len(value_bets.opps) :
          /\ value_bets.opps[i].volume = min_volume \/ value_bets.opps[i].liquidity = min_volume
          /\ \A j \in 1..Len(ret.opps) : ret.opps[j] # value_bets.opps[i]
    /\ Len(ret.opps) >= 2

C16_Witness ==
    /\ Done("find_high_liquidity_value")
    /\ LiquidityDecides(FindMispricedMarkets(call.kalshi, call.polymarket,
                                             call.platform, min_edge),
                        call.min_volume)

-----------------------------------------------------------------------------
(* C17.  Every list in a scan report is sorted non-increasingly by its     *)
(* category's key (profit_percentage for cross-venue and internal          *)
(* arbitrage, edge_percentage for value and liquid-value bets,             *)
(* |yes_price - 0.5| for extremes), and entries with equal keys keep the   *)
(* relative order in which they were produced from the input snapshot.     *)
(* Stated of the list each search returns and of the lists of both         *)
(* reports.                                                                *)

SameKey(a, b, key) == ~KeyLess(a, b, key) /\ ~KeyLess(b, a, key)

NonIncreasing(seq, key) ==
    \A i \in 1..(Len(seq) - 1) : ~KeyLess(seq[i], seq[i + 1], key)

\* the entries of each key are the produced entries of that key, in the
\* order of their production
TiesInProducedOrder(seq, produced, key) ==
    /\ Len(seq) = Len(produced)
    /\ \A i \in 1..Len(produced) :
          SelectSeq(seq, LAMBDA x : SameKey(x, produced[i], key))
             = SelectSeq(produced, LAMBDA x : SameKey(x, produced[i], key))

RankedStably(seq, produced, key) ==
    NonIncreasing(seq, key) /\ TiesInProducedOrder(seq, produced, key)

\* the opportunities of each search in the order the loops append them
ProducedCross(kalshi_markets, polymarket_markets, threshold) ==
    CrossOuter(kalshi_markets, polymarket_markets, 1, threshold).opps

ProducedInternal(kalshi_markets, polymarket_markets, platform, threshold) ==
    IF platform = "kalshi"
    THEN Collect([i \in 1..Len(kalshi_markets) |->
                     InternalKalshi(kalshi_markets[i], threshold)]).opps
    ELSE Collect([i \in 1..Len(polymarket_markets) |->
                     InternalPolymarket(polymarket_markets[i], threshold)]).opps

ProducedValue(kalshi, kalshi_markets, polymarket_markets, platform, edge_min) ==
    IF platform = "kalshi"
    THEN Collect([i \in 1..Len(kalshi_markets) |->
                     ValueKalshi(kalshi_markets[i],
                                 DetailsOk(kalshi, kalshi_markets[i]), edge_min)]).opps
    ELSE Collect([i \in 1..Len(polymarket_markets) |->
                     ValuePolymarket(polymarket_markets[i], edge_min)]).opps

ProducedExtremes(kalshi, kalshi_markets, polymarket_markets, platform, threshold) ==
    IF platform = "kalshi"
    THEN Collect([i \in 1..Len(kalshi_markets) |->
                     ExtremeKalshi(kalshi_markets[i],
                                   DetailsOk(kalshi, kalshi_markets[i]), threshold)]).opps
    ELSE Collect([i \in 1..Len(polymarket_markets) |->
                     ExtremePolymarket(polymarket_markets[i], threshold)]).opps

ProducedLiquid(produced_value, min_volume) ==
    SelectSeq(produced_value, LAMBDA bet : SufficientlyLiquid(bet, min_volume))

\* what the two venues serve to the call
ServedKalshi == GetMarkets(call.kalshi)

ServedPolymarket == SimplifiedMarkets(PolymarketGetMarkets(call.polymarket))

ArbitrageReportRanked(report, kalshi_markets, polymarket_markets) ==
    /\ RankedStably(report.cross_platform,
                    ProducedCross(kalshi_markets, polymarket_markets,
                                  min_profit_threshold),
                    "profit_percentage")
    /\ \A platform \in {"kalshi", "polymarket"} :
          RankedStably(report[platform \o "_internal"],
                       ProducedInternal(kalshi_markets, polymarket_markets, platform,
                                        min_profit_threshold),
                       "profit_percentage")

\* kalshi_served[n] is what kalshi serves to the n-th search of the venue
ValueReportRanked(report, kalshi_served, polymarket_markets) ==
    \A platform \in {"kalshi", "polymarket"} :
       /\ RankedStably(report[platform \o "_value"],
                       ProducedValue(call.kalshi, kalshi_served[1], polymarket_markets,
                                     platform, min_edge),
                       "edge_percentage")
       /\ RankedStably(report[platform \o "_extremes"],
                       ProducedExtremes(call.kalshi, kalshi_served[2],
                                        polymarket_markets, platform,
                                        DefaultExtremeThreshold),
                       "abs(yes_price - 0.5)")
       /\ RankedStably(report[platform \o "_liquid_value"],
                       ProducedLiquid(ProducedValue(call.kalshi, kalshi_served[3],
                                                    polymarket_markets, platform,
                                                    min_edge),
                                      DefaultMinVolume),
                       "edge_percentage")

C17_ListsRankedStably ==
    /\ Done("find_cross_platform_arbitrage") /\ ret.exc = "none"
       => RankedStably(ret.opps,
                       ProducedCross(call.kalshi_markets, SimplifiedMarkets(call.raws),
                                     min_profit_threshold),
                       "profit_percentage")
    /\ Done("find_internal_arbitrage") /\ ret.exc = "none"
       => RankedStably(ret.opps,
                       ProducedInternal(ServedKalshi, ServedPolymarket, call.platform,
                                        min_profit_threshold),
                       "profit_percentage")
    /\ Done("find_mispriced_markets") /\ ret.exc = "none"
       => RankedStably(ret.opps,
                       ProducedValue(call.kalshi, ServedKalshi, ServedPolymarket,
                                     call.platform, min_edge),
                       "edge_percentage")
    /\ Done("find_extreme_probabilities") /\ ret.exc = "none"
       => RankedStably(ret.opps,
                       ProducedExtremes(call.kalshi, ServedKalshi, ServedPolymarket,
                                        call.platform, call.threshold),
                       "abs(yes_price - 0.5)")
    /\ Done("find_high_liquidity_value") /\ ret.exc = "none"
       => RankedStably(ret.opps,
                       ProducedLiquid(ProducedValue(call.kalshi, ServedKalshi,
                                                    ServedPolymarket, call.platform,
                                                    min_edge),
                                      call.min_volume),
                       "edge_percentage")
    /\ Done("scan_all_arbitrage") /\ ret.exc = "none"
       => ArbitrageReportRanked(ret.report, ServedKalshi, ServedPolymarket)
    /\ Done("scan_all_value") /\ ret.exc = "none"
       => ValueReportRanked(ret.report,
                            [n \in 1..3 |-> GetMarkets(ServedAt(call.kalshi, n))],
                            ServedPolymarket)

\* a value search has returned a list that is not in the order of its
\* production and in which two different bets have the same edge
ReorderedWithTie(seq, produced, key) ==
    /\ seq # produced
    /\ \E i \in 1..(Len(seq) - 1) :
          seq[i] # seq[i + 1] /\ SameKey(seq[i], seq[i + 1], key)

C17_Witness ==
    /\ Done("find_mispriced_markets")
    /\ call.platform = "kalshi"
    /\ ret.exc = "none"
    /\ ReorderedWithTie(ret.opps,
                        ProducedValue(call.kalshi, ServedKalshi, <<>>, "kalshi",
                                      min_edge),
                        "edge_percentage")

-----------------------------------------------------------------------------
(* C18.  In every report, each summary count equals the length of the      *)
(* corresponding list(s) in the same report: for arbitrage, the three      *)
(* per-category counts equal the three list lengths and                    *)
(* total_opportunities is their sum; for value, each total is the sum of   *)
(* the two venues' list lengths for that category.                         *)

ArbitrageCountsAgree(report) ==
    /\ report.summary.cross_platform_count = Len(report.cross_platform)
    /\ report.summary.kalshi_internal_count = Len(report.kalshi_internal)
    /\ report.summary.polymarket_internal_count = Len(report.polymarket_internal)
    /\ report.summary.total_opportunities
          = Len(report.cross_platform) + Len(report.kalshi_internal)
               + Len(report.polymarket_internal)

ValueCountsAgree(report) ==
    /\ report.summary.total_value_opportunities
          = Len(report.kalshi_value) + Len(report.polymarket_value)
    /\ report.summary.total_extreme_probabilities
          = Len(report.kalshi_extremes) + Len(report.polymarket_extremes)
    /\ report.summary.total_liquid_value
          = Len(report.kalshi_liquid_value) + Len(report.polymarket_liquid_value)

C18_SummaryCountsAgree ==
    /\ Done("scan_all_arbitrage") /\ ret.exc = "none"
       => ArbitrageCountsAgree(ret.report)
    /\ Done("scan_all_value") /\ ret.exc = "none" => ValueCountsAgree(ret.report)

\* an arbitrage report with a polymarket-internal opportunity in it
C18_Witness ==
    /\ Done("scan_all_arbitrage")
    /\ ret.exc = "none"
    /\ ret.report.polymarket_internal # <<>>
    /\ ret.report.summary.total_opportunities > 0

-----------------------------------------------------------------------------
(* C19.  Running the orchestrator (scan_all_arbitrage or scan_all_value)   *)
(* twice with the adapters returning identical snapshots and with          *)
(* unchanged configuration yields identical opportunity lists and          *)
(* summaries, apart from timestamp / scan_time fields: when the second run *)
(* has returned, what it returned is what the first run returned.          *)

SecondRunDone ==
    /\ pc = "done"
    /\ call.op \in {"scan_all_arbitrage", "scan_all_value"}
    /\ prev # <<>>

-----------------------------------------------------------------------------
(* C20.  When both venues return empty snapshots, scan_all_arbitrage and   *)
(* scan_all_value complete without error and return a report in which      *)
(* every opportunity list is empty and every summary count is 0.           *)

BothVenuesEmpty ==
    GetMarkets(call.kalshi) = <<>> /\ PolymarketGetMarkets(call.polymarket) = <<>>

EmptyArbitrageReport(report) ==
    /\ report.cross_platform = <<>>
    /\ report.kalshi_internal = <<>>
    /\ report.polymarket_internal = <<>>
    /\ \A count \in DOMAIN report.summary : report.summary[count] = 0

EmptyValueReport(report) ==
    /\ \A list \in DOMAIN report \ {"summary"} : report[list] = <<>>
    /\ \A count \in DOMAIN report.summary : report.summary[count] = 0

C20_EmptySnapshotsEmptyReport ==
    /\ Done("scan_all_arbitrage") /\ BothVenuesEmpty
       => ret.exc = "none" /\ EmptyArbitrageReport(ret.report)
    /\ Done("scan_all_value") /\ BothVenuesEmpty
       => ret.exc = "none" /\ EmptyValueReport(ret.report)

-----------------------------------------------------------------------------
(* C21.  A snapshot fetch never raises to the core: for any transport or   *)
(* parsing failure on either venue the adapter returns an empty list, and  *)
(* every scan (with or without a time window configured) runs to           *)
(* completion and returns a report rather than terminating with an         *)
(* exception.                                                              *)

\* a failed request is answered with the empty list
FailureServesNothing ==
    /\ ~call.kalshi.ok => GetMarkets(call.kalshi) = <<>>
    /\ ~call.polymarket.ok => PolymarketGetMarkets(call.polymarket) = <<>>

C21_ScanNeverRaises ==
    Done("scan_all_arbitrage") \/ Done("scan_all_value")
    => FailureServesNothing /\ ret.exc = "none" /\ "report" \in DOMAIN ret

-----------------------------------------------------------------------------
(* C22.  When time_window_hours is set, every snapshot request issued      *)
(* during a scan (for both venues, in the arbitrage scan and in the value  *)
(* scan) carries the closing-within-N-hours filter; when it is null, no    *)
(* request carries a filter.                                               *)

EveryRequestFiltered ==
    \A i \in 1..Len(asked) : asked[i].filter = time_window_hours

C22_FilterOnEveryRequest ==
    Done("scan_all_arbitrage") \/ Done("scan_all_value") => EveryRequestFiltered

-----------------------------------------------------------------------------
(* C23.  A scan is stateless apart from configuration: running             *)
(* scan_all_arbitrage or scan_all_value leaves min_profit_threshold,       *)
(* min_edge and time_window_hours unchanged and keeps no other state       *)
(* between invocations (a run under the window of the run before returns   *)
(* what that run returned); set_time_window changes only                   *)
(* time_window_hours.                                                      *)

ScanReturning ==
    /\ call.op \in {"scan_all_arbitrage", "scan_all_value"}
    /\ pc = "call"
    /\ pc' = "done"

ConfigurationKept ==
    UNCHANGED <<min_profit_threshold, min_edge, time_window_hours>>

NothingElseKept ==
    prev # <<>> /\ prev[2] = time_window_hours => ret' = prev[1]

WindowBeingSet == time_window_hours' # time_window_hours

C23_ScanStateless ==
    [][/\ ScanReturning => ConfigurationKept /\ NothingElseKept
       /\ WindowBeingSet => UNCHANGED <<min_profit_threshold, min_edge, call, pc, ret>>]_vars

\* a scan has run twice under a window of one hour set before its first run
C23_Witness ==
    /\ SecondRunDone
    /\ time_window_hours = Hours(Num(1))
    /\ prev[2] = Hours(Num(1))

-----------------------------------------------------------------------------
(* C24.  The cross-venue check and the internal check interpret kalshi's   *)
(* ask prices from the same market-list record on the same [0,1] scale: a  *)
(* record that the internal check evaluates as yes 0.40 / no 0.55 is       *)
(* evaluated with the same 0.40 / 0.55 by the cross-venue check.  The      *)
(* internal check reads the asks of a list record over 100 (KalshiQuote);  *)
(* the prices the cross-venue check evaluated show in what it returns.     *)

\* the kalshi price an emitted cross-venue opportunity was computed with is
\* the price the internal check reads from the record
SameKalshiPrice(o, kalshi_market) ==
    o.trade_details.kalshi_price
       = KalshiQuote(kalshi_market, o.trade_details.kalshi_side \o "_ask")

C24_SameScaleInBothChecks ==
    Done("calculate_arbitrage") /\ PairQuoted(call.kalshi_market, call.raw)
    => /\ \A i \in 1..Len(ret.opps) : SameKalshiPrice(ret.opps[i], call.kalshi_market)
       /\ CrossQualifies(Strategy1Total(call.kalshi_market, call.raw),
                         min_profit_threshold)
          => /\ ret.opps # <<>>
             /\ ret.opps[1].total_cost = Strategy1Total(call.kalshi_market, call.raw)

-----------------------------------------------------------------------------
(* C25.  Within one scan_all_value report, every bet in a venue's          *)
(* liquid-value list also appears in that venue's value list (hence        *)
(* total_liquid_value <= total_value_opportunities), even when the venue's *)
(* snapshot changes between the separate fetches that the scan performs    *)
(* for the two lists.                                                      *)

Among(list, bet) == \E i \in 1..Len(list) : list[i] = bet

LiquidWithinValue(report) ==
    /\ \A platform \in {"kalshi", "polymarket"} :
          \A i \in 1..Len(report[platform \o "_liquid_value"]) :
             Among(report[platform \o "_value"], report[platform \o "_liquid_value"][i])
    /\ report.summary.total_liquid_value <= report.summary.total_value_opportunities

-----------------------------------------------------------------------------
(* C26.  Every emitted arbitrage opportunity (cross-venue or internal),    *)
(* for prices in (0,1] and any min_profit_threshold >= 0, has              *)
(* 0 < total_cost < 1, gross_profit = 1 - total_cost > 0, net_profit >= 0  *)
(* and fees.total_fees = gross_profit - net_profit.                        *)

InUnit(price) == 0 < price /\ price <= One

\* the prices an emitted opportunity was computed from are in (0,1]
PricedInUnit(o) ==
    IF o.type = "cross_platform_arbitrage"
    THEN InUnit(o.trade_details.kalshi_price) /\ InUnit(o.trade_details.polymarket_price)
    ELSE InUnit(o.trade_details.buy_yes_at) /\ InUnit(o.trade_details.buy_no_at)

SoundArbitrage(o) ==
    /\ 0 < o.total_cost
    /\ o.total_cost < One
    /\ o.gross_profit = One - o.total_cost
    /\ o.gross_profit > 0
    /\ o.net_profit >= 0
    /\ o.fees.total_fees = o.gross_profit - o.net_profit

C26_EmittedArbitrageIsSound ==
    /\ pc = "done"
    /\ call.op \in {"calculate_arbitrage", "internal_kalshi", "internal_polymarket",
                    "find_cross_platform_arbitrage", "find_internal_arbitrage"}
    /\ min_profit_threshold >= 0
    => \A i \in 1..Len(ret.opps) : PricedInUnit(ret.opps[i]) => SoundArbitrage(ret.opps[i])

\* the cross-venue check has emitted an opportunity at threshold 0
C26_Witness ==
    /\ Done("calculate_arbitrage")
    /\ min_profit_threshold = 0
    /\ Len(ret.opps) = 1
    /\ PricedInUnit(ret.opps[1])
    /\ ret.opps[1].net_profit > 0

-----------------------------------------------------------------------------
(* C27: the polymarket value check, which has no bid gate, emits for one   *)
(* market either no value bet or two, one per side, and never exactly one. *)

C27_BothSidesOrNone ==
    Done("value_polymarket_float") /\ ret.exc = "none"
        => Len(ret.opps) \in {0, 2}

-----------------------------------------------------------------------------
(* C28: under every interleaving of the sessions' script runs, the         *)
(* arbitrage scan started from a dashboard session runs with the time      *)
(* window selected in that same session.                                   *)

C28_ScanRunsWithOwnWindow ==
    \A s \in Sessions :
        session[s].scan.ran => session[s].scan.window = session[s].scan.selected

-----------------------------------------------------------------------------
(* C29: a scan of the manual branch of the dashboard runs only in response *)
(* to a click on "run scan now" made while auto-refresh was off; a click   *)
(* made under auto-refresh never causes one.                               *)

C29_ManualScanOnlyOnManualClick ==
    \A s \in Sessions :
        session[s].scan.mode = "manual" => session[s].scan.cause = "manual"

====
